---- MODULE Spec2Model ----
\* A model of kopilot's multi-cluster status engine (package k8s):
\* the provider's TTL cache (cache.go), the per-context status assembly
\* GetClusterStatus and the parallel aggregator GetAllClusterStatuses
\* (provider.go), with the collectors of collectors.go as operators.
EXTENDS Integers, Sequences, FiniteSets

\* ------------------------------------------------------------------ bounds
MaxContexts == 2      \* context names are 1..MaxContexts
MaxTime == 2          \* the clock runs 0..MaxTime
MaxTTL == 2           \* SetCacheTTL takes 0 or MaxTTL
MaxWorkers == 3       \* goroutines using the provider at lock granularity
MaxNodes == 2         \* nodes in one listing
MaxContainers == 2    \* container statuses of one pod
MaxStatuses == 4      \* statuses handed to analyzeClusterHealth
MaxArgs == 3          \* arguments of one kubectl_exec

\* provider.go:52, cacheTTL: 1 * time.Minute (one clock unit is one minute)
DefaultCacheTTL == 1

\* The timeouts, in seconds: provider.go:118 and collectors.go:17, 19
QueryTimeout == 10
DefaultAPITimeout == 30
DiscoveryTimeout == 10

CtxNames == 1..MaxContexts
TTLs == {0, MaxTTL}
Caller == 0                       \* the goroutine calling GetClusterStatus directly
Tasks == 1..MaxContexts           \* the goroutines GetAllClusterStatuses starts
Procs == {Caller} \cup Tasks
Workers == 1..MaxWorkers
ClusterNames == {"east", "west"}  \* names of cluster definitions in a kubeconfig

VARIABLES
  clusters,     \* p.clusters: the configured context names (keys of the map)
  cache,        \* p.cache: context -> NoEntry or [Status, ExpiresAt]
  cacheTTL,     \* p.cacheTTL
  now,          \* time.Now() (monotonic reading)
  pc,           \* per goroutine: position in GetClusterStatus / the task closure
  arg,          \* per goroutine: contextName
  ret,          \* per goroutine: the *ClusterStatus GetClusterStatus returned
  err,          \* per goroutine: the error GetClusterStatus returned
  cancelled,    \* per goroutine: queryCtx of its activation has been cancelled
  apc,          \* GetAllClusterStatuses: "idle", "running", "returned"
  order,        \* GetAllClusterStatuses: clusters := p.GetClusters()
  spawnI,       \* GetAllClusterStatuses: loop index i (1-based)
  idxOf,        \* per task: the closure's idx argument
  statuses,     \* GetAllClusterStatuses: the result slice
  wg,           \* GetAllClusterStatuses: the WaitGroup counter
  result,       \* what the last GetAllClusterStatuses returned to its caller
  \* history variables (not program state)
  resp,         \* per goroutine: what the cluster answered to its probe
  how,          \* per goroutine: how its current call ended
  lookT,        \* Caller: time of its cache lookup
  winEnd,       \* Caller: end of the TTL window of the status it returned
  prev,         \* Caller, between calls: its previous call
  repeat,       \* Caller, during a call: how the call repeats the previous one
  expect,       \* Caller, during a repeating call: the status the previous call returned
  disturbed,    \* since the Caller's last return: a clear, or a put by another goroutine
  lookCleared,  \* Caller: its context was in cleared when it looked the cache up
  overtook,     \* some task wrote its slot before a task started earlier
  lastPut,      \* context -> NoPut or the latest put since the last clear
  ttlSet,       \* argument of the latest SetCacheTTL, -1 before the first
  cleared,      \* contexts ClearCache removed and nobody has put since
  slotWrites    \* per slot: the tasks that wrote it, in order

\* The reader/writer lock and the goroutines that use the provider through it.
VARIABLES
  lpc,          \* per worker: position in its call
  lop,          \* per worker: the call it is in
  lhit,         \* per worker: what getCachedStatus returned to it
  readers,      \* p.cacheMutex: the goroutines holding the read lock
  writer        \* p.cacheMutex: the goroutine holding the write lock, 0 for none

lockVars == <<lpc, lop, lhit, readers, writer>>

\* One activation of GetClusterStatus, one API call at a time.
VARIABLES
  apos,         \* the statement the activation is at
  actx,         \* contextName
  astatus,      \* status, as built so far (the returned value at the end)
  aresp,        \* what the cluster answers to the calls of this activation
  acalls,       \* the calls made so far, in order
  aexpired,     \* the deadline of queryCtx has passed
  aexpiredAt    \* the call during which it passed

asmVars == <<apos, actx, astatus, aresp, acalls, aexpired, aexpiredAt>>

\* A function of the package applied to one input.
VARIABLES
  input,        \* the arguments, NoInput when none is under study
  output        \* the result, NoOutput before the call

pureVars == <<input, output>>

\* The context map's entries and the current context.
VARIABLES
  entries,        \* p.clusters: context -> the ClusterInfo it points to
  currentContext, \* p.currentContext, 0 for a name that is not a configured context
  setRes,         \* what the latest SetCurrentContext returned, "none" before the first
  setArg,         \* its argument
  listed,         \* what the latest direct call of GetClusters returned
  listedBefore    \* what the one before it returned

ctxVars == <<entries, currentContext, setRes, setArg, listed, listedBefore>>

\* The agent's execution mode and its two handlers (package agent).
VARIABLES
  mode,         \* state.mode
  kexec,        \* the latest kubectl_exec: its parameters and what it did
  sw            \* the latest handleModeSwitch: its input and what it returned

agentVars == <<mode, kexec, sw>>

vars == <<lockVars, asmVars, pureVars, ctxVars, agentVars, clusters, cache, cacheTTL, now, pc, arg, ret, err, cancelled, apc, order,
          spawnI, idxOf, statuses, wg, result, resp, how, lookT, winEnd, prev,
          repeat, expect, disturbed, lookCleared, overtook, lastPut, ttlSet, cleared, slotWrites>>

\* What the actions of GetClusterStatus, of the cache and of the aggregator
\* leave alone: the context map and the state of the lock-level and call-level models.
provVars == <<clusters, lockVars, asmVars, pureVars, ctxVars, agentVars>>
cacheVars == <<cache, cacheTTL, lastPut, ttlSet, cleared>>
procVars == <<pc, arg, ret, err, cancelled, resp, how>>
histVars == <<prev, repeat, expect, disturbed, lookT, winEnd, lookCleared>>
aggVars == <<apc, order, spawnI, idxOf, statuses, wg, result, slotWrites, overtook>>

\* ------------------------------------------------------------------ values
NilStatus == [nil |-> TRUE]       \* a nil *ClusterStatus
NoEntry == [absent |-> TRUE]      \* a key missing from p.cache
NoPut == [noput |-> TRUE]
NoResp == [noresp |-> TRUE]
NoPrev == [noprev |-> TRUE]
NoErr == ""
NoOp == [kind |-> "none"]
NoInput == [kind |-> "none"]
NoOutput == [nooutput |-> TRUE]
NoList == [nolist |-> TRUE]
NoExec == [noexec |-> TRUE]
NoSwitch == [noswitch |-> TRUE]
ModeReadOnly == "read-only"       \* agent.go:32
ModeInteractive == "interactive"  \* agent.go:34
NilProvider == [nilprovider |-> TRUE]
ErrLoad == "failed to load kubeconfig"
ErrNotFound == "cluster context not found"

\* ------------------------------------------------------------------ collectors
\* What one cluster's API answers to the calls of one probe.
\*   client:  createClientset succeeds
\*   verr / version: Discovery().ServerVersion()
\*   nerr / nodes:   Nodes().List, each node the list of its conditions
\*   nserr / ns:     Namespaces().List
\*   perr / pods:    Pods("").List
NodeReady == <<[type |-> "Ready", status |-> "True"]>>
NodeNotReady == <<[type |-> "MemoryPressure", status |-> "False"],
                  [type |-> "Ready", status |-> "False"]>>
NodeNoCondition == <<[type |-> "DiskPressure", status |-> "True"]>>
NodeReadyUnknown == <<[type |-> "Ready", status |-> "Unknown"]>>
NodeTwoReady == <<[type |-> "Ready", status |-> "False"],
                  [type |-> "Ready", status |-> "True"]>>
PodRunningOK == [name |-> "a", phase |-> "Running", ready |-> <<TRUE>>]
PodRunningBad == [name |-> "b", phase |-> "Running", ready |-> <<TRUE, FALSE>>]
PodPending == [name |-> "c", phase |-> "Pending", ready |-> <<>>]
PodSucceeded == [name |-> "d", phase |-> "Succeeded", ready |-> <<TRUE>>]

RespClientFail ==
  [client |-> FALSE, verr |-> TRUE, version |-> "", nerr |-> TRUE, nodes |-> <<>>,
   nserr |-> TRUE, ns |-> <<>>, perr |-> TRUE, pods |-> <<>>]
RespVersionFail == [RespClientFail EXCEPT !.client = TRUE]
RespNodeFail == [RespVersionFail EXCEPT !.verr = FALSE, !.version = "v1.28.0"]
RespHealthy ==
  [client |-> TRUE, verr |-> FALSE, version |-> "v1.28.0",
   nerr |-> FALSE, nodes |-> <<NodeReady>>,
   nserr |-> FALSE, ns |-> <<"default">>,
   perr |-> FALSE, pods |-> <<PodRunningOK>>]
RespDegraded ==
  [client |-> TRUE, verr |-> FALSE, version |-> "v1.29.1",
   nerr |-> FALSE, nodes |-> <<NodeReady, NodeNotReady>>,
   nserr |-> TRUE, ns |-> <<>>,
   perr |-> FALSE, pods |-> <<PodRunningBad, PodRunningOK>>]
RespNoPods == [RespHealthy EXCEPT !.perr = TRUE, !.pods = <<>>]

\* The answers the clusters give to the tasks of the aggregator.
Responses == {RespClientFail, RespVersionFail, RespNodeFail, RespHealthy, RespDegraded}

\* The answers the clusters give to direct calls: one that is not cached and
\* two different ones that are.
CallerResponses == {RespVersionFail, RespHealthy, RespDegraded}

\* Mutant of NodeStatus: the last Ready condition decides.
NodeStatusLastCondition(conds) ==
  LET ready == {i \in 1..Len(conds) : conds[i].type = "Ready"} IN
  IF ready = {} THEN "Unknown"
  ELSE LET last == CHOOSE i \in ready : \A j \in ready : i >= j IN
       IF conds[last].status = "True" THEN "Ready" ELSE "NotReady"

\* collectors.go:55-68: the status of one node from its conditions
NodeStatus(conds) ==
  LET ready == {i \in 1..Len(conds) : conds[i].type = "Ready"} IN
  IF ready = {} THEN "Unknown"
  ELSE LET first == CHOOSE i \in ready : \A j \in ready : i <= j IN
       IF conds[first].status = "True" THEN "Ready" ELSE "NotReady"

\* collectors.go:39-73 collectNodeInfo: (nodeInfos, healthyCount) of a listing
collectNodeInfo(items) ==
  LET infos == [i \in 1..Len(items) |-> NodeStatus(items[i])] IN
  [nodes |-> infos,
   healthy |-> Cardinality({i \in 1..Len(items) : infos[i] = "Ready"})]

\* Mutant of isPodHealthy: a Succeeded pod with ready containers is healthy.
isPodHealthyWhenSucceeded(pod) ==
  IF pod.phase # "Running" /\ pod.phase # "Succeeded" THEN FALSE
  ELSE \A i \in 1..Len(pod.ready) : pod.ready[i]

\* collectors.go:90-103 isPodHealthy
isPodHealthy(pod) ==
  IF pod.phase # "Running" /\ pod.phase # "Succeeded" THEN FALSE
  ELSE IF \E i \in 1..Len(pod.ready) : ~pod.ready[i] THEN FALSE
  ELSE pod.phase = "Running"

\* collectors.go:106-111 extractPodInfo (name and phase)
extractPodInfo(pod) == [name |-> pod.name, status |-> pod.phase]

RECURSIVE UnhealthyOf(_)
UnhealthyOf(items) ==
  IF items = <<>> THEN <<>>
  ELSE IF isPodHealthy(Head(items)) THEN UnhealthyOf(Tail(items))
  ELSE <<extractPodInfo(Head(items))>> \o UnhealthyOf(Tail(items))

\* Mutant of collectPodHealth: the list of unhealthy pods is cut by one.
collectPodHealthTruncates(items) ==
  [total |-> Len(items),
   healthy |-> Cardinality({i \in 1..Len(items) : isPodHealthy(items[i])}),
   unhealthy |-> IF UnhealthyOf(items) = <<>> THEN <<>> ELSE Tail(UnhealthyOf(items))]

\* collectors.go:136-155 collectPodHealth: (totalPods, healthyPods, unhealthyPods)
collectPodHealth(items) ==
  [total |-> Len(items),
   healthy |-> Cardinality({i \in 1..Len(items) : isPodHealthy(items[i])}),
   unhealthy |-> UnhealthyOf(items)]

\* ------------------------------------------------------------------ assembly
ErrClient == "failed to create client config"
ErrReach == "Failed to reach cluster"
ErrNodes == "Failed to list nodes"

\* provider.go:66-72 GetClusterByContext(c).IsCurrent, read through the
\* pointer the map holds; the zero value for a name the map does not have
IsCurrentOf(c) == IF c \in DOMAIN entries THEN entries[c].IsCurrent ELSE FALSE

\* provider.go:106-108: status := &ClusterStatus{ClusterInfo: *clusterInfo},
\* a copy of the entry as it is at that moment
NewStatus(c) ==
  [ctx |-> c, isCurrent |-> IsCurrentOf(c),
   reachable |-> FALSE, version |-> "", error |-> "",
   nodeCount |-> 0, healthyNodes |-> 0, nodes |-> <<>>, namespaces |-> <<>>,
   apiURL |-> "", podCount |-> 0, healthyPods |-> 0, unhealthyPods |-> <<>>]

\* A list call made with a cancelled queryCtx fails; ServerVersion takes no
\* context (collectors.go:28-31) and is not affected.
ListFails(failed, cxl) == failed \/ cxl

\* Mutant of ReachesCache: every assembly ends at cacheStatus.
ReachesCacheAlways(r, cxl) == TRUE

\* provider.go:157-158: the assembly reaches cacheStatus
ReachesCache(r, cxl) == r.client /\ ~r.verr /\ ~ListFails(r.nerr, cxl)

\* Mutant of OnClientError: the error message is dropped.
OnClientErrorSilent(status) == status

\* provider.go:112-115: createClientset failed
OnClientError(status) == [status EXCEPT !.error = ErrClient]

\* provider.go:123-127: the version probe failed
OnVersionError(status) == [status EXCEPT !.error = ErrReach, !.reachable = FALSE]

\* provider.go:129-131: the version probe succeeded
OnVersion(status, version) ==
  [status EXCEPT !.version = version, !.reachable = TRUE, !.apiURL = "https://host"]

\* provider.go:135-138: the node listing failed
OnNodesError(status) == [status EXCEPT !.error = ErrNodes]

\* provider.go:139-141: the node listing succeeded
OnNodes(status, n) ==
  [status EXCEPT !.nodes = n.nodes, !.nodeCount = Len(n.nodes),
                 !.healthyNodes = n.healthy]

\* Mutant of OnNamespaces: a failed namespace listing is reported in the error.
OnNamespacesSetsError(status, failed, names) ==
  IF failed THEN [status EXCEPT !.error = "Failed to list namespaces"]
  ELSE [status EXCEPT !.namespaces = names]

\* provider.go:144-147: the namespace listing, kept when it succeeded
OnNamespaces(status, failed, names) ==
  IF failed THEN status ELSE [status EXCEPT !.namespaces = names]

\* Mutant of OnPods: a failed pod listing is reported in the error.
OnPodsSetsError(status, failed, p) ==
  IF failed THEN [status EXCEPT !.error = "Failed to list pods"]
  ELSE [status EXCEPT !.podCount = p.total, !.healthyPods = p.healthy,
                      !.unhealthyPods = p.unhealthy]

\* provider.go:150-155: the pod listing, kept when it succeeded
OnPods(status, failed, p) ==
  IF failed THEN status
  ELSE [status EXCEPT !.podCount = p.total, !.healthyPods = p.healthy,
                      !.unhealthyPods = p.unhealthy]

\* provider.go:110-159: the status GetClusterStatus builds on a cache miss
Assemble(c, r, cxl) ==
  LET status == NewStatus(c) IN
  IF ~r.client THEN OnClientError(status)
  ELSE IF r.verr THEN OnVersionError(status)
  ELSE
    LET s1 == OnVersion(status, r.version) IN
    IF ListFails(r.nerr, cxl) THEN OnNodesError(s1)
    ELSE
      LET s2 == OnNodes(s1, collectNodeInfo(r.nodes))
          s3 == OnNamespaces(s2, ListFails(r.nserr, cxl), r.ns)
      IN OnPods(s3, ListFails(r.perr, cxl), collectPodHealth(r.pods))

\* How an assembly ended, from the cluster's answers.
Kind(r, cxl) ==
  IF ~r.client THEN "clientFail"
  ELSE IF r.verr THEN "versionFail"
  ELSE IF ListFails(r.nerr, cxl) THEN "nodeFail"
  ELSE "complete"

\* ------------------------------------------------------------------ cache
\* Mutant of Expired: an entry is expired from its expiry instant on.
ExpiredEarly(cached) == now >= cached.ExpiresAt

\* cache.go:19: time.Now().After(cached.ExpiresAt)
Expired(cached) == now > cached.ExpiresAt

\* Mutant of getCachedStatus: an entry is served whatever its expiry.
getCachedStatusServesExpired(contextName) ==
  LET cached == cache[contextName] IN
  IF cached = NoEntry THEN NilStatus ELSE cached.Status

\* cache.go:10-25 getCachedStatus
getCachedStatus(contextName) ==
  LET cached == cache[contextName] IN
  IF cached = NoEntry THEN NilStatus
  ELSE IF Expired(cached) THEN NilStatus
  ELSE cached.Status

\* Mutant of ExpiryOf: the expiry is computed from the default TTL.
ExpiryOfDefault(ttl) == now + DefaultCacheTTL

\* cache.go:34: time.Now().Add(p.cacheTTL)
ExpiryOf(ttl) == now + ttl

\* Mutant of cacheStatus: an entry that exists is kept.
cacheStatusKeepsFirst(contextName, status) ==
  IF cache[contextName] # NoEntry THEN cache
  ELSE [cache EXCEPT ![contextName] = [Status |-> status, ExpiresAt |-> ExpiryOf(cacheTTL)]]

\* cache.go:28-36 cacheStatus: the map after the store
cacheStatus(contextName, status) ==
  [cache EXCEPT ![contextName] = [Status |-> status, ExpiresAt |-> ExpiryOf(cacheTTL)]]

\* The TTL in force: the default until SetCacheTTL is first called.
InForce == IF ttlSet = -1 THEN DefaultCacheTTL ELSE ttlSet

\* The record of a put, kept beside the cache: the status, the time, the TTL
\* in force, and whether the put replaced an entry holding another status.
PutRecord(contextName, status) ==
  [status |-> status, at |-> now, d |-> InForce,
   over |-> (cache[contextName] # NoEntry /\ cache[contextName].Status # status)]

\* Mutant of ClearedCache: only the expired entries are removed.
ClearedCacheExpiredOnly ==
  [c \in CtxNames |-> IF cache[c] # NoEntry /\ ~Expired(cache[c]) THEN cache[c] ELSE NoEntry]

\* cache.go:39-43 ClearCache: p.cache = make(map[string]*CachedClusterStatus)
ClearedCache == [c \in CtxNames |-> NoEntry]

ClearCache ==
  /\ cache' = ClearedCache
  /\ lastPut' = [c \in CtxNames |-> NoPut]
  /\ cleared' = cleared \cup {c \in CtxNames : cache[c] # NoEntry}
  /\ disturbed' = TRUE
  /\ UNCHANGED <<cacheTTL, ttlSet, now, prev, repeat, expect, lookT, winEnd, lookCleared>>
  /\ UNCHANGED <<provVars, procVars, aggVars>>

\* Mutant of SetCacheTTL: the entries already cached are stamped again.
SetCacheTTLRestamps(ttl) ==
  /\ cacheTTL' = ttl
  /\ ttlSet' = ttl
  /\ cache' = [c \in CtxNames |->
                 IF cache[c] = NoEntry THEN NoEntry
                 ELSE [cache[c] EXCEPT !.ExpiresAt = now + ttl]]
  /\ UNCHANGED <<lastPut, cleared, now, histVars>>
  /\ UNCHANGED <<provVars, procVars, aggVars>>

\* cache.go:46-50 SetCacheTTL
SetCacheTTL(ttl) ==
  /\ cacheTTL' = ttl
  /\ ttlSet' = ttl
  /\ UNCHANGED <<cache, lastPut, cleared, now, histVars>>
  /\ UNCHANGED <<provVars, procVars, aggVars>>

\* The clock advances.
Tick ==
  /\ now < MaxTime
  /\ now' = now + 1
  /\ UNCHANGED <<cacheVars, histVars, provVars, procVars, aggVars>>

\* ------------------------------------------------------------------ GetClusterStatus
\* Mutant of GetClusterByContext: every name is taken for a configured context.
GetClusterByContextAny(contextName) == contextName \in CtxNames

\* provider.go:66-72 GetClusterByContext: the context is configured
GetClusterByContext(contextName) == contextName \in clusters

\* provider.go:95-108: the cache lookup and the context lookup of one call by
\* goroutine p for contextName. A hit or an unknown context returns at once; a
\* miss leaves p probing the cluster.
Lookup(p, contextName) ==
  LET cached == getCachedStatus(contextName)
      hit == cached # NilStatus
      known == GetClusterByContext(contextName)
  IN
  /\ arg' = [arg EXCEPT ![p] = contextName]
  /\ resp' = [resp EXCEPT ![p] = NoResp]
  /\ cancelled' = [cancelled EXCEPT ![p] = FALSE]
  /\ pc' = [pc EXCEPT ![p] = IF hit \/ ~known THEN "returned" ELSE "probing"]
  /\ ret' = [ret EXCEPT ![p] = IF hit THEN cached ELSE NilStatus]
  /\ err' = [err EXCEPT ![p] = IF ~hit /\ ~known THEN ErrNotFound ELSE NoErr]
  /\ how' = [how EXCEPT ![p] = IF hit THEN "cached"
                               ELSE IF ~known THEN "notfound" ELSE "probing"]
  /\ UNCHANGED <<cacheVars, now, provVars>>

\* Mutant of CancelTargets: the cancel reaches the context every task shares.
CancelTargetsShared(p) == Procs

\* provider.go:118-119: defer cancel() cancels the queryCtx of the returning
\* activation, and no other.
CancelTargets(p) == {p}

\* provider.go:110-160: goroutine p probes the cluster, which answers r; the
\* status is cached when the assembly reaches its end, and returned.
Probe(p, r) ==
  LET c == arg[p]
      cxl == cancelled[p]
      status == Assemble(c, r, cxl)
      stores == ReachesCache(r, cxl)
  IN
  /\ pc[p] = "probing"
  /\ pc' = [pc EXCEPT ![p] = "returned"]
  /\ ret' = [ret EXCEPT ![p] = status]
  /\ err' = [err EXCEPT ![p] = NoErr]
  /\ resp' = [resp EXCEPT ![p] = r]
  /\ how' = [how EXCEPT ![p] = Kind(r, cxl)]
  /\ cancelled' = [q \in Procs |->
                     IF r.client /\ q \in CancelTargets(p) THEN TRUE ELSE cancelled[q]]
  /\ cache' = IF stores THEN cacheStatus(c, status) ELSE cache
  /\ lastPut' = IF stores THEN [lastPut EXCEPT ![c] = PutRecord(c, status)] ELSE lastPut
  /\ cleared' = IF stores THEN cleared \ {c} ELSE cleared
  /\ disturbed' = IF p = Caller THEN FALSE ELSE disturbed \/ stores
  /\ UNCHANGED <<cacheTTL, ttlSet, now, arg, provVars>>

\* The responses with which an assembly reaches its end.
CompleteResponses == {r \in CallerResponses : ReachesCache(r, FALSE)}

\* provider.go:158: another goroutine's GetClusterStatus for contextName (a
\* task of GetAllClusterStatuses, another tool call) reaches cacheStatus; its
\* store is all the Caller can see of it.
ConcurrentStore(contextName, r) ==
  LET status == Assemble(contextName, r, FALSE) IN
  /\ GetClusterByContext(contextName)
  /\ cache' = cacheStatus(contextName, status)
  /\ lastPut' = [lastPut EXCEPT ![contextName] = PutRecord(contextName, status)]
  /\ cleared' = cleared \ {contextName}
  /\ disturbed' = TRUE
  /\ UNCHANGED <<cacheTTL, ttlSet, now, prev, repeat, expect, lookT, winEnd, lookCleared>>
  /\ UNCHANGED <<provVars, procVars, aggVars>>

\* The record of the Caller's completed call, as the next call finds it.
CallRecord ==
  [ctx |-> arg[Caller], status |-> ret[Caller],
   stored |-> how[Caller] \in {"cached", "complete"}, winEnd |-> winEnd]

\* How a call for contextName repeats the Caller's previous call: "no" unless
\* that call was for the same configured context, nothing was cleared or stored
\* by others since it returned, and the TTL window it opened is not over;
\* then "stored" when its status was in the cache, else "unstored".
RepeatOf(contextName) ==
  IF /\ prev # NoPrev
     /\ prev.ctx = contextName
     /\ contextName \in clusters
     /\ ~disturbed
     /\ now <= prev.winEnd
  THEN (IF prev.stored THEN "stored" ELSE "unstored")
  ELSE "no"

\* A direct call GetClusterStatus(ctx, contextName) (agent/tools.go:140, 204).
CallerCall(contextName) ==
  /\ pc[Caller] = "idle"
  /\ Lookup(Caller, contextName)
  /\ prev' = NoPrev
  /\ repeat' = RepeatOf(contextName)
  /\ expect' = IF RepeatOf(contextName) # "no" THEN prev.status ELSE NilStatus
  /\ disturbed' = IF pc'[Caller] = "returned" THEN FALSE ELSE disturbed
  /\ lookT' = now
  /\ lookCleared' = (contextName \in cleared)
  /\ winEnd' = LET put == lastPut[contextName] IN
               IF how'[Caller] = "cached" /\ put # NoPut THEN put.at + put.d
               ELSE IF how'[Caller] = "notfound" THEN now + InForce
               ELSE 0
  /\ UNCHANGED aggVars

CallerProbe(r) ==
  /\ Probe(Caller, r)
  /\ winEnd' = now + InForce
  /\ UNCHANGED <<prev, repeat, expect, lookT, lookCleared, aggVars>>

\* The Caller takes the result and is free to call again.
CallerDone ==
  /\ pc[Caller] = "returned"
  /\ prev' = CallRecord
  /\ pc' = [pc EXCEPT ![Caller] = "idle"]
  /\ arg' = [arg EXCEPT ![Caller] = 0]
  /\ ret' = [ret EXCEPT ![Caller] = NilStatus]
  /\ err' = [err EXCEPT ![Caller] = NoErr]
  /\ cancelled' = [cancelled EXCEPT ![Caller] = FALSE]
  /\ resp' = [resp EXCEPT ![Caller] = NoResp]
  /\ how' = [how EXCEPT ![Caller] = "none"]
  /\ repeat' = "no"
  /\ expect' = NilStatus
  /\ lookT' = 0
  /\ winEnd' = 0
  /\ lookCleared' = FALSE
  /\ UNCHANGED disturbed
  /\ UNCHANGED <<cacheVars, now, provVars, aggVars>>

\* ------------------------------------------------------------------ GetAllClusterStatuses
\* provider.go:57-63 GetClusters: the entries in the order the map iteration
\* gives them, which Go leaves unspecified.
GetClusters ==
  {s \in [1..Cardinality(clusters) -> clusters] :
     \A i, j \in DOMAIN s : i # j => s[i] # s[j]}

\* provider.go:163-167: the call takes the cluster list and sizes the result.
GetAllStart ==
  /\ apc \in {"idle", "returned"}
  /\ \E s \in GetClusters :
       /\ order' = s
       /\ statuses' = [i \in DOMAIN s |-> NilStatus]
       /\ slotWrites' = [i \in DOMAIN s |-> <<>>]
  /\ overtook' = FALSE
  /\ apc' = "running"
  /\ spawnI' = 1
  /\ wg' = 0
  /\ result' = <<>>
  /\ idxOf' = [k \in Tasks |-> 0]
  /\ pc' = [p \in Procs |-> IF p \in Tasks THEN "none" ELSE pc[p]]
  /\ arg' = [p \in Procs |-> IF p \in Tasks THEN 0 ELSE arg[p]]
  /\ ret' = [p \in Procs |-> IF p \in Tasks THEN NilStatus ELSE ret[p]]
  /\ err' = [p \in Procs |-> IF p \in Tasks THEN NoErr ELSE err[p]]
  /\ cancelled' = [p \in Procs |-> IF p \in Tasks THEN FALSE ELSE cancelled[p]]
  /\ resp' = [p \in Procs |-> IF p \in Tasks THEN NoResp ELSE resp[p]]
  /\ how' = [p \in Procs |-> IF p \in Tasks THEN "none" ELSE how[p]]
  /\ UNCHANGED <<cacheVars, now, histVars, provVars>>

\* Mutant of ClosureIdx: every closure gets the same index.
ClosureIdxShared(i) == 1

\* provider.go:170, 186: the arguments the closure is called with
ClosureIdx(i) == i

\* provider.go:168-187: one iteration of the loop: wg.Add(1) and go func(i, ...)
Spawn ==
  /\ apc = "running"
  /\ spawnI <= Len(order)
  /\ wg' = wg + 1
  /\ pc' = [pc EXCEPT ![spawnI] = "start"]
  /\ arg' = [arg EXCEPT ![spawnI] = order[spawnI]]
  /\ idxOf' = [idxOf EXCEPT ![spawnI] = ClosureIdx(spawnI)]
  /\ spawnI' = spawnI + 1
  /\ UNCHANGED <<apc, order, statuses, result, slotWrites, overtook>>
  /\ UNCHANGED <<ret, err, cancelled, resp, how>>
  /\ UNCHANGED <<cacheVars, now, histVars, provVars>>

\* provider.go:172: the task calls GetClusterStatus
TaskCall(k) ==
  /\ pc[k] = "start"
  /\ Lookup(k, arg[k])
  /\ UNCHANGED <<histVars, aggVars>>

TaskProbe(k, r) ==
  /\ Probe(k, r)
  /\ UNCHANGED <<prev, repeat, expect, lookT, winEnd, lookCleared, aggVars>>

\* Mutant of SlotValue: a task whose cluster is unreachable stores nothing.
SlotValueSkipsUnreachable(k) ==
  IF err[k] # NoErr \/ ~ret[k].reachable THEN NilStatus ELSE ret[k]

\* Mutant of SlotOf: an error leaves the slot as it was.
SlotOfDropsError(contextName, status, e) == status

\* provider.go:173-185: the value the closure stores for what GetClusterStatus
\* returned
SlotOf(contextName, status, e) ==
  IF e # NoErr
  THEN [NewStatus(contextName) EXCEPT !.isCurrent = FALSE, !.reachable = FALSE,
                                      !.error = e]
  ELSE status

\* provider.go:172-185: what the task stores in its slot
SlotValue(k) == SlotOf(arg[k], ret[k], err[k])

\* provider.go:171-185: the task writes its slot and, deferred, wg.Done()
TaskWrite(k) ==
  /\ pc[k] = "returned"
  /\ statuses' = [statuses EXCEPT ![idxOf[k]] = SlotValue(k)]
  /\ slotWrites' = [slotWrites EXCEPT ![idxOf[k]] = Append(@, k)]
  /\ overtook' = (overtook \/ \E j \in 1..(k - 1) : pc[j] # "done")
  /\ wg' = wg - 1
  /\ pc' = [pc EXCEPT ![k] = "done"]
  /\ UNCHANGED <<apc, order, spawnI, idxOf, result>>
  /\ UNCHANGED <<arg, ret, err, cancelled, resp, how>>
  /\ UNCHANGED <<cacheVars, now, histVars, provVars>>

\* Mutant of WaitDone: the wait ends one task early.
WaitDoneEarly == wg <= 1

\* provider.go:189: wg.Wait() lets the caller through
WaitDone == wg = 0

\* provider.go:189-190: after the loop, wg.Wait() and return statuses
GetAllReturn ==
  /\ apc = "running"
  /\ spawnI > Len(order)
  /\ WaitDone
  /\ apc' = "returned"
  /\ result' = statuses
  /\ UNCHANGED <<order, spawnI, idxOf, statuses, wg, slotWrites, overtook>>
  /\ UNCHANGED <<cacheVars, now, histVars, provVars, procVars>>

\* ------------------------------------------------------------------ NewProvider
\* What clientcmd.LoadFromFile gives: ok is false for a missing or unparsable
\* file; Contexts maps each declared context to the cluster it names,
\* Clusters are the names of the cluster definitions.
ContextMaps ==
  UNION {[S -> ClusterNames] : S \in SUBSET CtxNames}

Configs ==
  {[kind |-> "load", ok |-> FALSE, Contexts |-> <<>>, Clusters |-> {},
    CurrentContext |-> 0]}
  \cup {[kind |-> "load", ok |-> TRUE, Contexts |-> m, Clusters |-> ks,
         CurrentContext |-> cur] :
          m \in ContextMaps, ks \in SUBSET ClusterNames, cur \in {0} \cup CtxNames}

\* Mutant of Resolves: a context resolves whatever cluster it names.
ResolvesAny(cfg, contextName) == contextName \in DOMAIN cfg.Contexts

\* provider.go:30-34: cluster, ok := rawConfig.Clusters[clusterName]
Resolves(cfg, contextName) == cfg.Contexts[contextName] \in cfg.Clusters

\* provider.go:36-43: the ClusterInfo of a context
ClusterInfoOf(cfg, contextName) ==
  [Name |-> cfg.Contexts[contextName], Context |-> contextName,
   IsCurrent |-> (contextName = cfg.CurrentContext)]

\* provider.go:26-44: the loop over rawConfig.Contexts, todo being the
\* contexts still to visit and acc the map built so far
RECURSIVE ParseContexts(_, _, _)
ParseContexts(cfg, todo, acc) ==
  IF todo = {} THEN acc
  ELSE LET contextName == CHOOSE c \in todo : TRUE
           rest == todo \ {contextName}
       IN IF ~Resolves(cfg, contextName) THEN ParseContexts(cfg, rest, acc)
          ELSE ParseContexts(cfg, rest,
                 [c \in DOMAIN acc \cup {contextName} |->
                    IF c = contextName THEN ClusterInfoOf(cfg, contextName) ELSE acc[c]])

\* provider.go:18-54 NewProvider
NewProvider(cfg) ==
  IF ~cfg.ok THEN [provider |-> NilProvider, err |-> ErrLoad]
  ELSE [provider |->
          [clusters |-> ParseContexts(cfg, DOMAIN cfg.Contexts, <<>>),
           currentContext |-> cfg.CurrentContext,
           cache |-> [c \in CtxNames |-> NoEntry],
           cacheTTL |-> DefaultCacheTTL],
        err |-> NoErr]

\* ------------------------------------------------------------------ specification
\* provider.go:18-54 NewProvider: the provider after construction
InitState ==
  /\ clusters \in SUBSET CtxNames
  /\ cache = [c \in CtxNames |-> NoEntry]
  /\ cacheTTL = DefaultCacheTTL
  /\ now = 0
  /\ pc = [p \in Procs |-> IF p = Caller THEN "idle" ELSE "none"]
  /\ arg = [p \in Procs |-> 0]
  /\ ret = [p \in Procs |-> NilStatus]
  /\ err = [p \in Procs |-> NoErr]
  /\ cancelled = [p \in Procs |-> FALSE]
  /\ apc = "idle"
  /\ order = <<>>
  /\ spawnI = 1
  /\ idxOf = [k \in Tasks |-> 0]
  /\ statuses = <<>>
  /\ wg = 0
  /\ result = <<>>
  /\ resp = [p \in Procs |-> NoResp]
  /\ how = [p \in Procs |-> "none"]
  /\ lookT = 0
  /\ winEnd = 0
  /\ prev = NoPrev
  /\ repeat = "no"
  /\ expect = NilStatus
  /\ disturbed = FALSE
  /\ lookCleared = FALSE
  /\ overtook = FALSE
  /\ lastPut = [c \in CtxNames |-> NoPut]
  /\ ttlSet = -1
  /\ cleared = {}
  /\ slotWrites = <<>>
  /\ lpc = [g \in Workers |-> "idle"]
  /\ lop = [g \in Workers |-> NoOp]
  /\ lhit = [g \in Workers |-> NilStatus]
  /\ readers = {}
  /\ writer = 0
  /\ apos = "idle"
  /\ actx = 0
  /\ astatus = NilStatus
  /\ aresp = NoResp
  /\ acalls = <<>>
  /\ aexpired = FALSE
  /\ aexpiredAt = "none"

\* main.go:75: the agent in its default mode, no handler called yet.
IdleAgent ==
  /\ mode = ModeReadOnly
  /\ kexec = NoExec
  /\ sw = NoSwitch

\* A kubeconfig declaring the contexts S, all of one cluster, none current.
ConfigOf(S) ==
  [kind |-> "load", ok |-> TRUE, Contexts |-> [c \in S |-> "east"],
   Clusters |-> {"east"}, CurrentContext |-> 0]

\* The provider after construction, no function under study.
Init ==
  /\ InitState
  /\ IdleAgent
  /\ entries = NewProvider(ConfigOf(clusters)).provider.clusters
  /\ currentContext = 0
  /\ setRes = "none"
  /\ setArg = 0
  /\ listed = NoList
  /\ listedBefore = NoList
  /\ input = NoInput
  /\ output = NoOutput

\* The aggregator, its tasks, the clock and ClearCache.
NextAgg ==
  \/ GetAllStart
  \/ Spawn
  \/ \E k \in Tasks : TaskCall(k)
  \/ \E k \in Tasks, r \in Responses : TaskProbe(k, r)
  \/ \E k \in Tasks : TaskWrite(k)
  \/ GetAllReturn
  \/ ClearCache
  \/ Tick

SpecAgg == Init /\ [][NextAgg]_vars

\* Direct calls of GetClusterStatus, the cache operations and the clock.
NextCache ==
  \/ \E c \in CtxNames : CallerCall(c)
  \/ \E r \in CallerResponses : CallerProbe(r)
  \/ CallerDone
  \/ \E c \in CtxNames, r \in CompleteResponses : ConcurrentStore(c, r)
  \/ ClearCache
  \/ \E ttl \in TTLs : SetCacheTTL(ttl)
  \/ Tick

SpecCache == Init /\ [][NextCache]_vars

\* ------------------------------------------------------------------ claims C1-C5
\* The tasks of the call in progress or just returned.
Started == 1..Len(order)

\* A probe that found its cluster unreachable.
ProbedUnreachable(k) == how[k] \in {"clientFail", "versionFail"}

\* C1: whatever the probes of the M configured contexts answer,
\* GetAllClusterStatuses returns a list of exactly M statuses, none of them nil,
\* and when every probe found its cluster unreachable every status of the
\* list has reachability false.
C1_ReturnsOnePerContext ==
  apc = "returned" =>
    /\ Len(result) = Cardinality(clusters)
    /\ \A i \in DOMAIN result : result[i] # NilStatus
    /\ (\A k \in Started : ProbedUnreachable(k)) =>
          \A i \in DOMAIN result : result[i] # NilStatus /\ ~result[i].reachable

C1_Witness ==
  /\ apc = "returned"
  /\ Cardinality(clusters) >= 2
  /\ Len(result) = Cardinality(clusters)
  /\ \A k \in Started : ProbedUnreachable(k)

\* C2: the status at position i of the result carries the context name of the
\* i-th entry of the list the call iterated, in whatever order the tasks end;
\* every slot is written at most once, and only by the task started for it.
C2_SlotOfOwnIndex ==
  /\ apc = "returned" =>
       \A i \in DOMAIN result : result[i] # NilStatus /\ result[i].ctx = order[i]
  /\ \A i \in DOMAIN slotWrites :
       /\ Len(slotWrites[i]) <= 1
       /\ \A j \in DOMAIN slotWrites[i] : slotWrites[i][j] = i

C2_Witness ==
  /\ apc = "returned"
  /\ Len(result) >= 2
  /\ overtook
  /\ order[1] > order[2]
  /\ \A i \in DOMAIN result : result[i] # NilStatus /\ result[i].ctx = order[i]

\* C3: the list is returned only after every task of the call has ended and
\* written its slot: the caller never sees a running task or an unset slot.
C3_ReturnsAfterAllTasks ==
  apc = "returned" =>
    /\ \A k \in Started : pc[k] = "done" /\ Len(slotWrites[k]) = 1
    /\ \A k \in Tasks \ Started : pc[k] = "none"
    /\ result = statuses
    /\ \A i \in DOMAIN result : result[i] # NilStatus

C3_Witness ==
  /\ apc = "returned"
  /\ Len(result) >= 2
  /\ \A k \in Started : pc[k] = "done"
  /\ \E k \in Started : how[k] = "complete"
  /\ now > 0

\* The status a call by task k gets when its context is probed alone: the
\* cached one on a hit, else the one assembled from the answers of its own
\* cluster with its queryCtx live.
ProbedAlone(k) ==
  IF how[k] \in {"complete", "nodeFail", "versionFail", "clientFail"}
  THEN Assemble(order[k], resp[k], FALSE)
  ELSE ret[k]

\* C4: in one GetAllClusterStatuses call the status at every position is the
\* one its own context gets when probed alone, whatever the probes of the
\* other contexts did, and no task's queryCtx is cancelled while it probes.
C4_ProbesAreIsolated ==
  /\ apc = "returned" =>
       \A i \in DOMAIN result :
         /\ result[i] = ProbedAlone(i)
         /\ result[i] # NilStatus /\ result[i].ctx = order[i]
  /\ \A k \in Tasks : pc[k] = "probing" => ~cancelled[k]

C4_Witness ==
  /\ apc = "returned"
  /\ \E i, j \in Started :
       /\ how[i] \in {"clientFail", "versionFail", "nodeFail"}
       /\ how[j] = "complete"
       /\ result[j] = Assemble(order[j], resp[j], FALSE)
       /\ result[j].reachable /\ result[j].error = ""

\* The statuses GetClusterStatus and GetAllClusterStatuses have returned.
ReturnedStatuses ==
  {ret[p] : p \in {q \in Procs : pc[q] \in {"returned", "done"} /\ ret[q] # NilStatus}}
    \cup {result[i] : i \in {j \in DOMAIN result : result[j] # NilStatus}}

ProbeKinds == {"probing", "clientFail", "versionFail", "nodeFail", "complete"}

\* C6 as stated: a call for a configured context made within the TTL window of
\* the caller's previous call for it, with no ClearCache in between, returns
\* the status the previous call returned, without probing the cluster.
C6_Original ==
  (pc[Caller] # "idle" /\ repeat # "no") =>
    /\ pc[Caller] = "returned"
    /\ how[Caller] = "cached"
    /\ ret[Caller] = expect

\* C6 amended: when the previous call's status was in the cache (its probe ran
\* to the end, or it was served from the cache), a call for the same configured
\* context made no later than that entry's expiry, with no ClearCache and no
\* store by another goroutine in between, returns the status the previous call
\* returned, from the cache and without probing the cluster.
C6_RepeatServedFromCache ==
  (pc[Caller] # "idle" /\ repeat = "stored") =>
    /\ pc[Caller] = "returned"
    /\ how[Caller] = "cached"
    /\ ret[Caller] = expect
    /\ err[Caller] = NoErr

C6_Witness ==
  /\ pc[Caller] = "returned"
  /\ repeat = "stored"
  /\ how[Caller] = "cached"
  /\ ret[Caller] = expect
  /\ ret[Caller] # NilStatus
  /\ lookT = winEnd
  /\ lookT > 0

\* C7: once more than the TTL in force at a put has passed since that put, get
\* returns nil for the context and a GetClusterStatus call for it goes to the
\* cluster; before that TTL has passed, get returns the status put.
C7_ExpiresAfterTTL ==
  /\ \A c \in CtxNames :
       lastPut[c] # NoPut =>
         /\ now > lastPut[c].at + lastPut[c].d => getCachedStatus(c) = NilStatus
         /\ now < lastPut[c].at + lastPut[c].d => getCachedStatus(c) = lastPut[c].status
  /\ (/\ pc[Caller] # "idle"
      /\ arg[Caller] \in CtxNames
      /\ lastPut[arg[Caller]] # NoPut
      /\ lookT > lastPut[arg[Caller]].at + lastPut[arg[Caller]].d)
       => how[Caller] \in ProbeKinds

\* A put made after SetCacheTTL(0) has expired and the Caller's call for its
\* context is at the cluster; a put made after SetCacheTTL(2) is still served.
C7_Witness ==
  /\ pc[Caller] = "probing"
  /\ lookT = now
  /\ lastPut[arg[Caller]] # NoPut
  /\ lastPut[arg[Caller]].d = 0
  /\ now > lastPut[arg[Caller]].at
  /\ getCachedStatus(arg[Caller]) = NilStatus
  /\ \E c \in CtxNames :
       /\ lastPut[c] # NoPut
       /\ lastPut[c].d = 2
       /\ now < lastPut[c].at + 2
       /\ getCachedStatus(c) = lastPut[c].status

\* C8: get returns the status of the latest put for the context when there is
\* one since the last clear and the time is not after (time of that put + TTL
\* in force at that put); otherwise it returns nil.
C8_GetContract ==
  \A c \in CtxNames :
    getCachedStatus(c) =
      IF lastPut[c] # NoPut /\ now <= lastPut[c].at + lastPut[c].d
      THEN lastPut[c].status
      ELSE NilStatus

\* A put has replaced an entry holding another status, and the Caller is served
\* the status of the later put.
C8_Witness ==
  /\ pc[Caller] = "returned"
  /\ how[Caller] = "cached"
  /\ lastPut[arg[Caller]] # NoPut
  /\ lastPut[arg[Caller]].over
  /\ ret[Caller] = lastPut[arg[Caller]].status
  /\ \E c \in CtxNames : lastPut[c] # NoPut /\ getCachedStatus(c) = NilStatus

\* C9: the TTL is 1 minute until SetCacheTTL is called and the argument of the
\* latest SetCacheTTL afterwards; the cache holds exactly the puts made since
\* the last clear, each with the status put and the expiry (time of the put +
\* TTL in force at the put), whatever SetCacheTTL calls came after the put.
C9_SetCacheTTLFrame ==
  /\ ttlSet = -1 => cacheTTL = DefaultCacheTTL
  /\ ttlSet # -1 => cacheTTL = ttlSet
  /\ \A c \in CtxNames :
       /\ cache[c] = NoEntry <=> lastPut[c] = NoPut
       /\ cache[c] # NoEntry =>
            /\ cache[c].Status = lastPut[c].status
            /\ cache[c].ExpiresAt = lastPut[c].at + lastPut[c].d

\* SetCacheTTL was called after a put, with a TTL other than the one the entry
\* was put under, and the entry has kept its expiry.
C9_Witness ==
  /\ ttlSet # -1
  /\ \E c \in CtxNames :
       /\ cache[c] # NoEntry
       /\ lastPut[c].d # cacheTTL
       /\ lastPut[c].d # now - lastPut[c].at + cacheTTL
       /\ cache[c].ExpiresAt = lastPut[c].at + lastPut[c].d

\* C10: a context ClearCache removed has no entry and get returns nil for it
\* until a put for it, and a GetClusterStatus call that looks it up meanwhile
\* goes to the cluster.
C10_ClearCacheEmpties ==
  /\ \A c \in cleared : cache[c] = NoEntry /\ getCachedStatus(c) = NilStatus
  /\ (pc[Caller] # "idle" /\ lookCleared) => how[Caller] \in ProbeKinds

\* Entries of two contexts are gone and the Caller's call for one of them,
\* made at the time the entries would still be served, is at the cluster.
C10_Witness ==
  /\ Cardinality(cleared) >= 2
  /\ pc[Caller] = "probing"
  /\ lookCleared
  /\ arg[Caller] \in cleared
  /\ now = 0

\* ------------------------------------------------------------------ the cache lock
\* Everything but the cache, the lock and the workers.
callVars == <<procVars, histVars, aggVars, asmVars>>

\* The calls a worker makes: GetClusterStatus (directly or as a task of
\* GetAllClusterStatuses), ClearCache, SetCacheTTL.
StatusOp(c) == [kind |-> "status", ctx |-> c, ttl |-> 0, status |-> NilStatus]
ClearOp == [kind |-> "clear", ctx |-> 0, ttl |-> 0, status |-> NilStatus]
TTLOp(ttl) == [kind |-> "setttl", ctx |-> 0, ttl |-> ttl, status |-> NilStatus]
WorkerOps == {StatusOp(c) : c \in CtxNames} \cup {ClearOp} \cup {TTLOp(ttl) : ttl \in TTLs}

\* The answers the clusters give to the workers' probes.
WorkerResponses == {RespVersionFail, RespHealthy}

\* Mutant of CanLock: the write lock is granted while readers hold the lock.
CanLockDespiteReaders == writer = 0

\* sync.RWMutex.Lock returns: no writer and no reader holds the lock
CanLock == writer = 0 /\ readers = {}

\* sync.RWMutex.Lock, first half: the lock is free of writers, those holding
\* it and those waiting for its readers to leave
CanLockPending == writer = 0 /\ \A h \in Workers : lpc[h] # "wdrain"

\* sync.RWMutex.RLock returns: no writer holds the lock and none is waiting
\* for the readers to leave
CanRLock == writer = 0 /\ \A h \in Workers : lpc[h] # "wdrain"

\* A worker enters a call: GetClusterStatus goes to getCachedStatus
\* (provider.go:97), ClearCache and SetCacheTTL to their Lock (cache.go:40, 47).
WorkerCall(g, op) ==
  /\ lpc[g] = "idle"
  /\ lop' = [lop EXCEPT ![g] = op]
  /\ lpc' = [lpc EXCEPT ![g] = IF op.kind = "status" THEN "rlock" ELSE "wlock"]
  /\ lhit' = [lhit EXCEPT ![g] = NilStatus]
  /\ UNCHANGED <<readers, writer, cacheVars, clusters, now, callVars, pureVars, ctxVars, agentVars>>

\* cache.go:11 p.cacheMutex.RLock()
RLock(g) ==
  /\ lpc[g] = "rlock"
  /\ CanRLock
  /\ readers' = readers \cup {g}
  /\ lpc' = [lpc EXCEPT ![g] = "get"]
  /\ UNCHANGED <<lop, lhit, writer, cacheVars, clusters, now, callVars, pureVars, ctxVars, agentVars>>

\* cache.go:14-24: the map and the clock are read
GetRead(g) ==
  /\ lpc[g] = "get"
  /\ lhit' = [lhit EXCEPT ![g] = getCachedStatus(lop[g].ctx)]
  /\ lpc' = [lpc EXCEPT ![g] = "runlock"]
  /\ UNCHANGED <<lop, readers, writer, cacheVars, clusters, now, callVars, pureVars, ctxVars, agentVars>>

\* Mutant of RUnlock: a miss while another worker probes the same context
\* does not probe (single-flight).
RUnlockSingleFlight(g) ==
  /\ lpc[g] = "runlock"
  /\ readers' = readers \ {g}
  /\ LET miss == /\ lhit[g] = NilStatus
                 /\ GetClusterByContext(lop[g].ctx)
                 /\ \A h \in Workers \ {g} :
                      ~(lpc[h] = "probe" /\ lop[h].ctx = lop[g].ctx)
     IN
       /\ lpc' = [lpc EXCEPT ![g] = IF miss THEN "probe" ELSE "idle"]
       /\ lop' = [lop EXCEPT ![g] = IF miss THEN @ ELSE NoOp]
  /\ lhit' = [lhit EXCEPT ![g] = NilStatus]
  /\ UNCHANGED <<writer, cacheVars, clusters, now, callVars, pureVars, ctxVars, agentVars>>

\* Mutant of RUnlock: a miss goes on to the probe with the read lock held.
RUnlockAfterProbe(g) ==
  /\ lpc[g] = "runlock"
  /\ LET miss == lhit[g] = NilStatus /\ GetClusterByContext(lop[g].ctx) IN
       /\ readers' = IF miss THEN readers ELSE readers \ {g}
       /\ lpc' = [lpc EXCEPT ![g] = IF miss THEN "probe" ELSE "idle"]
       /\ lop' = [lop EXCEPT ![g] = IF miss THEN @ ELSE NoOp]
  /\ lhit' = [lhit EXCEPT ![g] = NilStatus]
  /\ UNCHANGED <<writer, cacheVars, clusters, now, callVars, pureVars, ctxVars, agentVars>>

\* cache.go:12 deferred RUnlock, then provider.go:97-104: a hit or an unknown
\* context returns, a miss goes on to the probe
RUnlock(g) ==
  /\ lpc[g] = "runlock"
  /\ readers' = readers \ {g}
  /\ LET miss == lhit[g] = NilStatus /\ GetClusterByContext(lop[g].ctx) IN
       /\ lpc' = [lpc EXCEPT ![g] = IF miss THEN "probe" ELSE "idle"]
       /\ lop' = [lop EXCEPT ![g] = IF miss THEN @ ELSE NoOp]
  /\ lhit' = [lhit EXCEPT ![g] = NilStatus]
  /\ UNCHANGED <<writer, cacheVars, clusters, now, callVars, pureVars, ctxVars, agentVars>>

\* provider.go:106-159: the probe and the assembly; the end of the assembly
\* goes on to cacheStatus
WorkerProbe(g, r) ==
  /\ lpc[g] = "probe"
  /\ lop' = [lop EXCEPT ![g] = IF ReachesCache(r, FALSE)
                                THEN [@ EXCEPT !.status = Assemble(lop[g].ctx, r, FALSE)]
                                ELSE NoOp]
  /\ lpc' = [lpc EXCEPT ![g] = IF ReachesCache(r, FALSE) THEN "wlock" ELSE "idle"]
  /\ UNCHANGED <<lhit, readers, writer, cacheVars, clusters, now, callVars, pureVars, ctxVars, agentVars>>

\* cache.go:29, 40, 47 p.cacheMutex.Lock(), first half: the caller is the
\* one pending writer; from now on RLock blocks
LockPending(g) ==
  /\ lpc[g] = "wlock"
  /\ CanLockPending
  /\ lpc' = [lpc EXCEPT ![g] = "wdrain"]
  /\ UNCHANGED <<lop, lhit, readers, writer, cacheVars, clusters, now, callVars, pureVars, ctxVars, agentVars>>

\* cache.go:29, 40, 47 p.cacheMutex.Lock() returns once the readers have left
Lock(g) ==
  /\ lpc[g] = "wdrain"
  /\ CanLock
  /\ writer' = g
  /\ lpc' = [lpc EXCEPT ![g] = "write"]
  /\ UNCHANGED <<lop, lhit, readers, cacheVars, clusters, now, callVars, pureVars, ctxVars, agentVars>>

\* cache.go:32-35, 42, 49: the write of the map or of the TTL
Write(g) ==
  LET op == lop[g] IN
  /\ lpc[g] = "write"
  /\ lpc' = [lpc EXCEPT ![g] = "unlock"]
  /\ cache' = IF op.kind = "status" THEN cacheStatus(op.ctx, op.status)
              ELSE IF op.kind = "clear" THEN ClearedCache ELSE cache
  /\ cacheTTL' = IF op.kind = "setttl" THEN op.ttl ELSE cacheTTL
  /\ ttlSet' = IF op.kind = "setttl" THEN op.ttl ELSE ttlSet
  /\ lastPut' = IF op.kind = "status"
                THEN [lastPut EXCEPT ![op.ctx] = PutRecord(op.ctx, op.status)]
                ELSE IF op.kind = "clear" THEN [c \in CtxNames |-> NoPut] ELSE lastPut
  /\ cleared' = IF op.kind = "status" THEN cleared \ {op.ctx}
                ELSE IF op.kind = "clear"
                THEN cleared \cup {c \in CtxNames : cache[c] # NoEntry} ELSE cleared
  /\ UNCHANGED <<lop, lhit, readers, writer, clusters, now, callVars, pureVars, ctxVars, agentVars>>

\* cache.go:30, 41, 48 deferred Unlock
Unlock(g) ==
  /\ lpc[g] = "unlock"
  /\ writer' = 0
  /\ lpc' = [lpc EXCEPT ![g] = "idle"]
  /\ lop' = [lop EXCEPT ![g] = NoOp]
  /\ UNCHANGED <<lhit, readers, cacheVars, clusters, now, callVars, pureVars, ctxVars, agentVars>>

\* Concurrent calls on one provider, at the granularity of the lock.
NextLock ==
  \/ \E g \in Workers, op \in WorkerOps : WorkerCall(g, op)
  \/ \E g \in Workers : RLock(g)
  \/ \E g \in Workers : GetRead(g)
  \/ \E g \in Workers : RUnlock(g)
  \/ \E g \in Workers, r \in WorkerResponses : WorkerProbe(g, r)
  \/ \E g \in Workers : LockPending(g)
  \/ \E g \in Workers : Lock(g)
  \/ \E g \in Workers : Write(g)
  \/ \E g \in Workers : Unlock(g)

SpecLock == Init /\ [][NextLock]_vars

\* The scheduling the runtime gives the lock: a goroutine that can go on inside
\* a cache function does; a goroutine blocked in RLock or Lock gets the lock
\* if it is free again and again (sync.RWMutex wakes blocked readers at
\* Unlock and sync.Mutex hands over to starved waiters). Nothing is assumed
\* of the clusters: a probe may never answer, and callers may stop calling.
LockFairness ==
  \A g \in Workers :
    /\ SF_vars(RLock(g))
    /\ WF_vars(GetRead(g))
    /\ WF_vars(RUnlock(g))
    /\ SF_vars(LockPending(g))
    /\ WF_vars(Lock(g))
    /\ WF_vars(Write(g))
    /\ WF_vars(Unlock(g))

\* One configured context and one name that is not configured.
InitLockFair == Init /\ clusters = {1}

\* The calls under the fair scheduling: GetClusterStatus for either name,
\* ClearCache and SetCacheTTL.
FairOps == {StatusOp(c) : c \in CtxNames} \cup {ClearOp, TTLOp(MaxTTL)}

NextLockFair ==
  \/ \E g \in Workers, op \in FairOps : WorkerCall(g, op)
  \/ \E g \in Workers : RLock(g)
  \/ \E g \in Workers : GetRead(g)
  \/ \E g \in Workers : RUnlock(g)
  \/ \E g \in Workers, r \in WorkerResponses : WorkerProbe(g, r)
  \/ \E g \in Workers : LockPending(g)
  \/ \E g \in Workers : Lock(g)
  \/ \E g \in Workers : Write(g)
  \/ \E g \in Workers : Unlock(g)

SpecLockFair == InitLockFair /\ [][NextLockFair]_vars /\ LockFairness

\* ------------------------------------------------------------------ claim C11
\* Between RLock and RUnlock: where the map and the clock are read.
InReadSection(g) == lpc[g] \in {"get", "runlock"}

\* Between Lock and Unlock: where the map or the TTL is written.
InWriteSection(g) == lpc[g] \in {"write", "unlock"}

\* C11: a worker about to read the map holds the read lock and a worker about
\* to write the map or the TTL holds the write lock; while a worker is in a
\* write section no other worker is in a read or write section.
C11_LockGuardsCache ==
  \A g \in Workers :
    /\ InReadSection(g) <=> g \in readers
    /\ InWriteSection(g) <=> writer = g
    /\ InWriteSection(g) =>
         \A h \in Workers \ {g} : ~InReadSection(h) /\ ~InWriteSection(h)

\* Two workers read the map under the read lock at once while a third has
\* called Lock and waits.
C11_Witness ==
  /\ Cardinality({g \in Workers : lpc[g] = "get"}) >= 2
  /\ \E g \in Workers : lpc[g] = "wdrain" /\ lop[g].kind = "status"
  /\ \E c \in CtxNames : cache[c] # NoEntry

\* ------------------------------------------------------------------ claim C12
\* What a returned direct call holds: an error and no status exactly for a
\* name that is not configured, which was never probed; a status and no error
\* for a configured one.
ReturnedAsConfigured ==
  /\ pc[Caller] = "probing" => arg[Caller] \in clusters
  /\ pc[Caller] = "returned" =>
       /\ err[Caller] # NoErr <=> arg[Caller] \notin clusters
       /\ arg[Caller] \notin clusters =>
            /\ err[Caller] = ErrNotFound /\ ret[Caller] = NilStatus
            /\ how[Caller] = "notfound" /\ resp[Caller] = NoResp
       /\ arg[Caller] \in clusters =>
            /\ err[Caller] = NoErr /\ ret[Caller] # NilStatus
            /\ ret[Caller].ctx = arg[Caller]

\* C12: GetClusterStatus returns the not-found error and no status if and only
\* if the name is not a configured context, and then it has probed nothing
\* and its step leaves the cache and the TTL as they were; for a configured
\* context it returns a status and no error, whatever the probe met.
C12_NotFoundIffUnconfigured ==
  [][/\ ReturnedAsConfigured'
     /\ (pc[Caller] = "idle" /\ how'[Caller] = "notfound") =>
          UNCHANGED <<cache, cacheTTL>>]_vars

\* A call for a name that is not configured has returned the error while the
\* cache holds an entry, and the provider has a configured context.
C12_Witness ==
  /\ pc[Caller] = "returned"
  /\ arg[Caller] \notin clusters
  /\ err[Caller] = ErrNotFound
  /\ ret[Caller] = NilStatus
  /\ \E c \in clusters : cache[c] # NoEntry

\* ------------------------------------------------------------------ one assembly, call by call
\* The answers a cluster gives to the calls of one activation.
AsmResponses ==
  {RespClientFail, RespVersionFail, RespNodeFail, RespHealthy, RespDegraded, RespNoPods}

\* Mutant of AfterClient: the activation goes on after createClientset failed.
AfterClientGoesOn(failed) == "version"

\* provider.go:112-115: return on a createClientset error
AfterClient(failed) == IF failed THEN "done" ELSE "version"

\* Mutant of AfterVersion: the activation goes on after the version probe failed.
AfterVersionGoesOn(failed) == "nodes"

\* provider.go:123-127: return on a version error
AfterVersion(failed) == IF failed THEN "done" ELSE "nodes"

\* Mutant of AfterNodes: a failed node listing goes to the cache as well.
AfterNodesStores(failed) == IF failed THEN "store" ELSE "namespaces"

\* Mutant of AfterNodes: the pods are listed right after the nodes.
AfterNodesSkipsNamespaces(failed) == IF failed THEN "done" ELSE "pods"

\* Mutant of AfterNodes: the activation goes on after the node listing failed.
AfterNodesGoesOn(failed) == "namespaces"

\* provider.go:135-138: return on a node listing error
AfterNodes(failed) == IF failed THEN "done" ELSE "namespaces"

\* provider.go:95-108: the call looks the cache and the context up
AsmStart(c, r) ==
  LET cached == getCachedStatus(c) IN
  /\ apos = "idle"
  /\ GetClusterByContext(c)
  /\ actx' = c
  /\ aresp' = r
  /\ acalls' = <<>>
  /\ aexpired' = FALSE
  /\ aexpiredAt' = "none"
  /\ astatus' = IF cached # NilStatus THEN cached ELSE NewStatus(c)
  /\ apos' = IF cached # NilStatus THEN "hit" ELSE "client"
  /\ UNCHANGED <<cacheVars, clusters, now, lockVars, pureVars, ctxVars, agentVars, procVars, histVars, aggVars>>

\* provider.go:111-119: createClientset; on success queryCtx is created
AsmClient ==
  /\ apos = "client"
  /\ acalls' = Append(acalls, "createClientset")
  /\ astatus' = IF ~aresp.client THEN OnClientError(astatus) ELSE astatus
  /\ apos' = AfterClient(~aresp.client)
  /\ UNCHANGED <<actx, aresp, aexpired, aexpiredAt>>
  /\ UNCHANGED <<cacheVars, clusters, now, lockVars, pureVars, ctxVars, agentVars, procVars, histVars, aggVars>>

\* provider.go:118: the 10 seconds of queryCtx pass while a call is awaited
AsmDeadline ==
  /\ apos \in {"version", "nodes", "namespaces", "pods"}
  /\ ~aexpired
  /\ aexpired' = TRUE
  /\ aexpiredAt' = apos
  /\ UNCHANGED <<apos, actx, astatus, aresp, acalls>>
  /\ UNCHANGED <<cacheVars, clusters, now, lockVars, pureVars, ctxVars, agentVars, procVars, histVars, aggVars>>

\* provider.go:122-131 with collectors.go:23-36: ServerVersion is called
\* without a context, so it ends by the cluster's answer alone
AsmVersion ==
  /\ apos = "version"
  /\ acalls' = Append(acalls, "version")
  /\ astatus' = IF aresp.verr THEN OnVersionError(astatus)
                ELSE OnVersion(astatus, aresp.version)
  /\ apos' = AfterVersion(aresp.verr)
  /\ UNCHANGED <<actx, aresp, aexpired, aexpiredAt>>
  /\ UNCHANGED <<cacheVars, clusters, now, lockVars, pureVars, ctxVars, agentVars, procVars, histVars, aggVars>>

\* provider.go:134-141: collectNodeInfo(queryCtx, clientset)
AsmNodes ==
  LET failed == ListFails(aresp.nerr, aexpired) IN
  /\ apos = "nodes"
  /\ acalls' = Append(acalls, "nodes")
  /\ astatus' = IF failed THEN OnNodesError(astatus)
                ELSE OnNodes(astatus, collectNodeInfo(aresp.nodes))
  /\ apos' = AfterNodes(failed)
  /\ UNCHANGED <<actx, aresp, aexpired, aexpiredAt>>
  /\ UNCHANGED <<cacheVars, clusters, now, lockVars, pureVars, ctxVars, agentVars, procVars, histVars, aggVars>>

\* provider.go:144-147: collectNamespaceList(queryCtx, clientset)
AsmNamespaces ==
  /\ apos = "namespaces"
  /\ acalls' = Append(acalls, "namespaces")
  /\ astatus' = OnNamespaces(astatus, ListFails(aresp.nserr, aexpired), aresp.ns)
  /\ apos' = "pods"
  /\ UNCHANGED <<actx, aresp, aexpired, aexpiredAt>>
  /\ UNCHANGED <<cacheVars, clusters, now, lockVars, pureVars, ctxVars, agentVars, procVars, histVars, aggVars>>

\* provider.go:150-155: collectPodHealth(queryCtx, clientset)
AsmPods ==
  /\ apos = "pods"
  /\ acalls' = Append(acalls, "pods")
  /\ astatus' = OnPods(astatus, ListFails(aresp.perr, aexpired),
                       collectPodHealth(aresp.pods))
  /\ apos' = "store"
  /\ UNCHANGED <<actx, aresp, aexpired, aexpiredAt>>
  /\ UNCHANGED <<cacheVars, clusters, now, lockVars, pureVars, ctxVars, agentVars, procVars, histVars, aggVars>>

\* provider.go:157-159: p.cacheStatus(contextName, status); return status, nil
AsmStore ==
  /\ apos = "store"
  /\ cache' = cacheStatus(actx, astatus)
  /\ lastPut' = [lastPut EXCEPT ![actx] = PutRecord(actx, astatus)]
  /\ cleared' = cleared \ {actx}
  /\ apos' = "stored"
  /\ UNCHANGED <<actx, astatus, aresp, acalls, aexpired, aexpiredAt>>
  /\ UNCHANGED <<cacheTTL, ttlSet, clusters, now, lockVars, pureVars, ctxVars, agentVars, procVars, histVars, aggVars>>

\* The caller has the status; the provider is free for the next call.
AsmReturn ==
  /\ apos \in {"hit", "done", "stored"}
  /\ apos' = "idle"
  /\ actx' = 0
  /\ astatus' = NilStatus
  /\ aresp' = NoResp
  /\ acalls' = <<>>
  /\ aexpired' = FALSE
  /\ aexpiredAt' = "none"
  /\ UNCHANGED <<cacheVars, clusters, now, lockVars, pureVars, ctxVars, agentVars, procVars, histVars, aggVars>>

NextAsm ==
  \/ \E c \in CtxNames, r \in AsmResponses : AsmStart(c, r)
  \/ AsmClient
  \/ AsmDeadline
  \/ AsmVersion
  \/ AsmNodes
  \/ AsmNamespaces
  \/ AsmPods
  \/ AsmStore
  \/ AsmReturn
  \/ Tick

SpecAsm == Init /\ [][NextAsm]_vars

\* The activation has returned a status it assembled.
AsmReturned == apos \in {"done", "stored"}

\* ------------------------------------------------------------------ claims C13-C15, C17
AllCalls == <<"createClientset", "version", "nodes", "namespaces", "pods">>

\* The calls made so far include call.
Called(call) == \E i \in DOMAIN acalls : acalls[i] = call

\* The listings that failed, by the cluster's answer or because the deadline
\* had passed when they were made.
NodesFailed == aresp.nerr \/ aexpiredAt \in {"version", "nodes"}
NamespacesFailed == aresp.nserr \/ aexpiredAt \in {"version", "nodes", "namespaces"}
PodsFailed == aresp.perr \/ aexpired

\* C13: when createClientset fails the returned status is unreachable with an
\* error and no call to the cluster was made; when the version probe fails the
\* returned status is unreachable with an error and no listing was made.
C13_ReachabilityGate ==
  /\ (Called("version") => aresp.client)
  /\ (Called("nodes") \/ Called("namespaces") \/ Called("pods")) =>
       (aresp.client /\ ~aresp.verr)
  /\ AsmReturned =>
       /\ ~aresp.client =>
            /\ ~astatus.reachable /\ astatus.error # ""
            /\ acalls = <<"createClientset">>
       /\ (aresp.client /\ aresp.verr) =>
            /\ ~astatus.reachable /\ astatus.error # ""
            /\ acalls = <<"createClientset", "version">>

C13_Witness ==
  /\ apos = "done"
  /\ aresp.client /\ aresp.verr
  /\ ~astatus.reachable /\ astatus.error = ErrReach
  /\ acalls = <<"createClientset", "version">>
  /\ \E c \in CtxNames : cache[c] # NoEntry

\* C14: once the node listing has failed after a successful version probe the
\* activation has returned, with no further call, a status that is reachable,
\* has the version and an error, and has empty node, namespace and pod fields.
C14_NodeFailureReturns ==
  (aresp # NoResp /\ Len(acalls) >= 3 /\ NodesFailed) =>
    /\ apos = "done"
    /\ acalls = <<"createClientset", "version", "nodes">>
    /\ astatus.reachable /\ astatus.version = aresp.version /\ astatus.version # ""
    /\ astatus.error # ""
    /\ astatus.nodeCount = 0 /\ astatus.healthyNodes = 0 /\ astatus.nodes = <<>>
    /\ astatus.namespaces = <<>>
    /\ astatus.podCount = 0 /\ astatus.healthyPods = 0 /\ astatus.unhealthyPods = <<>>
    /\ cache[actx] = NoEntry \/ cache[actx].Status # astatus

C14_Witness ==
  /\ apos = "done"
  /\ aresp.client /\ ~aresp.verr /\ aresp.nerr /\ ~aexpired
  /\ acalls = <<"createClientset", "version", "nodes">>
  /\ astatus.reachable /\ astatus.error = ErrNodes

\* C15: after a successful node listing the activation makes the namespace and
\* the pod listing whatever either answers, and reaches its end with no error,
\* the version and the node fields of the listing; a failed namespace listing
\* leaves the namespace list empty and a failed pod listing leaves the pod
\* fields zero, each without effect on the other.
C15_LaterFailuresSwallowed ==
  /\ (aresp # NoResp /\ Len(acalls) >= 3 /\ ~NodesFailed) =>
       /\ apos \in {"namespaces", "pods", "store", "stored"}
       /\ astatus.error = ""
       /\ apos \in {"store", "stored"} => acalls = AllCalls
  /\ apos = "stored" =>
       /\ acalls = AllCalls
       /\ astatus.reachable /\ astatus.error = ""
       /\ astatus.version = aresp.version
       /\ astatus.nodes = collectNodeInfo(aresp.nodes).nodes
       /\ astatus.nodeCount = Len(aresp.nodes)
       /\ astatus.healthyNodes = collectNodeInfo(aresp.nodes).healthy
       /\ astatus.namespaces = IF NamespacesFailed THEN <<>> ELSE aresp.ns
       /\ astatus.podCount = IF PodsFailed THEN 0 ELSE Len(aresp.pods)
       /\ astatus.healthyPods =
            IF PodsFailed THEN 0 ELSE collectPodHealth(aresp.pods).healthy
       /\ astatus.unhealthyPods =
            IF PodsFailed THEN <<>> ELSE collectPodHealth(aresp.pods).unhealthy
       /\ cache[actx] # NoEntry /\ cache[actx].Status = astatus

\* The namespace listing failed and the pod listing, made after it, was kept.
C15_Witness ==
  /\ apos = "stored"
  /\ aresp.nserr /\ ~aresp.perr /\ ~aexpired
  /\ astatus.namespaces = <<>>
  /\ astatus.podCount = 2 /\ astatus.healthyPods = 1
  /\ astatus.nodeCount = 2 /\ astatus.healthyNodes = 1
  /\ astatus.error = ""

\* C17 as stated: when the deadline of the probe has passed during the version
\* probe or during a listing, the status returned for the context is
\* unreachable with a non-empty error.
C17_Original ==
  (AsmReturned /\ aexpired) => (~astatus.reachable /\ astatus.error # "")

\* ------------------------------------------------------------------ the functions on their inputs
\* Node listings: up to MaxNodes nodes, each the list of its conditions.
NodeKinds == {NodeReady, NodeNotReady, NodeNoCondition, NodeReadyUnknown, NodeTwoReady}
NodeLists == UNION {[1..n -> NodeKinds] : n \in 0..MaxNodes}
NodeInputs == {[kind |-> "nodes", items |-> l] : l \in NodeLists}

\* Pods: a phase and up to MaxContainers container statuses.
PodPhases == {"Pending", "Running", "Succeeded", "Failed", "Unknown"}
ReadyLists == UNION {[1..n -> BOOLEAN] : n \in 0..MaxContainers}
PodInputs ==
  {[kind |-> "pod", pod |-> [name |-> "p", phase |-> ph, ready |-> rs]] :
     ph \in PodPhases, rs \in ReadyLists}

\* What GetClusterStatus hands to the closure of GetAllClusterStatuses, the
\* closure's index and the slice it writes to.
SlotInputs ==
  {[kind |-> "slot", idx |-> i, n |-> n, contextName |-> c, status |-> st, err |-> e] :
     n \in 1..MaxContexts, i \in 1..MaxContexts, c \in CtxNames,
     st \in {NilStatus} \cup {Assemble(x, r, FALSE) : x \in CtxNames, r \in AsmResponses},
     e \in {NoErr, ErrNotFound, "context deadline exceeded"}}

\* A status as GetClusterStatus leaves it for a reachable cluster with nn
\* nodes, hn of them Ready, and pn pods, hp of them healthy.
HealthStatus(c, hn, nn, hp, pn) ==
  [NewStatus(c) EXCEPT
     !.reachable = TRUE, !.version = "v1.28.0",
     !.nodeCount = nn, !.healthyNodes = hn,
     !.nodes = [i \in 1..nn |-> IF i <= hn THEN "Ready" ELSE "NotReady"],
     !.podCount = pn, !.healthyPods = hp,
     !.unhealthyPods = [i \in 1..(pn - hp) |-> extractPodInfo(PodPending)]]

\* The statuses the analyzer is given: healthy, with a node not ready, with a
\* pod not healthy, with both, not reachable, and reachable without nodes
\* (the node listing failed, provider.go:134-137).
StatusHealthy == HealthStatus(1, 2, 2, 5, 5)
StatusNodeIssue == HealthStatus(2, 1, 2, 0, 0)
StatusPodIssue == HealthStatus(1, 3, 3, 4, 5)
StatusBothIssues == HealthStatus(2, 1, 2, 3, 5)
StatusUnreachable == Assemble(2, RespVersionFail, FALSE)
StatusNodeListFailed == Assemble(1, RespNodeFail, FALSE)

AnalyzedStatuses ==
  {StatusHealthy, StatusNodeIssue, StatusPodIssue, StatusBothIssues,
   StatusUnreachable, StatusNodeListFailed}

HealthInputs ==
  {[kind |-> "health", statuses |-> l] :
     l \in UNION {[1..n -> AnalyzedStatuses] : n \in 0..MaxStatuses}}

\* tools.go:341-346: the summary analyzeClusterHealth starts from
EmptySummary ==
  [reachableCount |-> 0, healthyCount |-> 0, totalUnhealthyPods |-> 0, issues |-> <<>>]

\* tools.go:353-356, 359-364, 378: the issue strings, by what is formatted in
UnreachableIssue(status) ==
  [kind |-> "UNREACHABLE", ctx |-> status.ctx, error |-> status.error]
NodeIssue(status) ==
  [kind |-> "nodes healthy", ctx |-> status.ctx,
   count |-> status.healthyNodes, of |-> status.nodeCount]
PodIssue(status) ==
  [kind |-> "pods unhealthy", ctx |-> status.ctx,
   count |-> status.podCount - status.healthyPods, of |-> status.podCount]

\* tools.go:353
hasNodeIssue(status) == status.healthyNodes < status.nodeCount /\ status.nodeCount > 0

\* tools.go:359
hasPodIssue(status) == status.healthyPods < status.podCount /\ status.podCount > 0

\* Mutant of countsHealthy: a reachable cluster without issues is healthy.
countsHealthyWithoutNodes(status) == ~hasNodeIssue(status) /\ ~hasPodIssue(status)

\* tools.go:366-368: !hasIssues && status.NodeCount > 0
countsHealthy(status) ==
  ~hasNodeIssue(status) /\ ~hasPodIssue(status) /\ status.nodeCount > 0

\* tools.go:349-369 processReachableCluster
processReachableCluster(status, summary) ==
  LET s1 == [summary EXCEPT !.reachableCount = @ + 1]
      s2 == IF hasNodeIssue(status)
            THEN [s1 EXCEPT !.issues = Append(@, NodeIssue(status))]
            ELSE s1
      s3 == IF hasPodIssue(status)
            THEN [s2 EXCEPT !.totalUnhealthyPods = @ + (status.podCount - status.healthyPods),
                            !.issues = Append(@, PodIssue(status))]
            ELSE s2
  IN IF countsHealthy(status) THEN [s3 EXCEPT !.healthyCount = @ + 1] ELSE s3

\* Mutant of onUnreachable: the issue is put in front of the list.
onUnreachableFirst(status, summary) ==
  [summary EXCEPT !.issues = <<UnreachableIssue(status)>> \o @]

\* tools.go:377-379: the else branch of the loop
onUnreachable(status, summary) ==
  [summary EXCEPT !.issues = Append(@, UnreachableIssue(status))]

\* tools.go:372-384 analyzeClusterHealth: the loop from position i on
RECURSIVE analyzeFrom(_, _, _)
analyzeFrom(list, i, summary) ==
  IF i > Len(list) THEN summary
  ELSE analyzeFrom(list, i + 1,
         IF list[i].reachable
         THEN processReachableCluster(list[i], summary)
         ELSE onUnreachable(list[i], summary))

analyzeClusterHealth(list) == analyzeFrom(list, 1, EmptySummary)

\* tools.go:487-499: the result of check_all_clusters for the statuses
CheckAllClustersResult(list) ==
  LET summary == analyzeClusterHealth(list) IN
  [total_clusters |-> Len(list), reachable |-> summary.reachableCount,
   fully_healthy |-> summary.healthyCount,
   unhealthy_pods |-> summary.totalUnhealthyPods, issues |-> summary.issues]

PureInputs ==
  Configs \cup NodeInputs \cup PodInputs \cup HealthInputs
    \cup {s \in SlotInputs :
            /\ s.idx <= s.n
            /\ s.err = NoErr <=> s.status # NilStatus
            /\ s.status # NilStatus => s.status.ctx = s.contextName}

\* NewProvider(kubeconfigPath)
LoadConfig ==
  /\ input.kind = "load" /\ output = NoOutput
  /\ output' = NewProvider(input)
  /\ UNCHANGED <<input, cacheVars, clusters, now, lockVars, callVars, ctxVars, agentVars>>

\* collectNodeInfo on the listing
CollectNodes ==
  /\ input.kind = "nodes" /\ output = NoOutput
  /\ output' = collectNodeInfo(input.items)
  /\ UNCHANGED <<input, cacheVars, clusters, now, lockVars, callVars, ctxVars, agentVars>>

\* isPodHealthy(&pod)
ClassifyPod ==
  /\ input.kind = "pod" /\ output = NoOutput
  /\ output' = [healthy |-> isPodHealthy(input.pod)]
  /\ UNCHANGED <<input, cacheVars, clusters, now, lockVars, callVars, ctxVars, agentVars>>

\* provider.go:165, 173-185: the closure's write into the slice
WriteSlot ==
  /\ input.kind = "slot" /\ output = NoOutput
  /\ output' = [statuses |->
                  [[i \in 1..input.n |-> NilStatus] EXCEPT
                     ![input.idx] = SlotOf(input.contextName, input.status, input.err)]]
  /\ UNCHANGED <<input, cacheVars, clusters, now, lockVars, callVars, ctxVars, agentVars>>

\* analyzeClusterHealth(statuses) inside check_all_clusters
AnalyzeHealth ==
  /\ input.kind = "health" /\ output = NoOutput
  /\ output' = CheckAllClustersResult(input.statuses)
  /\ UNCHANGED <<input, cacheVars, clusters, now, lockVars, callVars, ctxVars, agentVars>>

NextPure == LoadConfig \/ CollectNodes \/ ClassifyPod \/ WriteSlot \/ AnalyzeHealth

\* Each function on each of its inputs.
InitPure ==
  /\ InitState
  /\ IdleAgent
  /\ clusters = {}
  /\ entries = <<>>
  /\ currentContext = 0
  /\ setRes = "none"
  /\ setArg = 0
  /\ listed = NoList
  /\ listedBefore = NoList
  /\ input \in PureInputs
  /\ output = NoOutput

SpecPure == InitPure /\ [][NextPure]_vars

\* ------------------------------------------------------------------ claim C20
\* C20: a pod is classified healthy if and only if its phase is Running and
\* every container status reports ready (a Running pod without container
\* statuses is healthy); a Pending, Failed, Unknown or Succeeded pod is never
\* healthy, whatever its containers report.
C20_PodHealthyIff ==
  (input.kind = "pod" /\ output # NoOutput) =>
    /\ output.healthy <=>
         (/\ input.pod.phase = "Running"
          /\ \A i \in 1..Len(input.pod.ready) : input.pod.ready[i])
    /\ input.pod.phase \in {"Pending", "Failed", "Unknown", "Succeeded"}
         => ~output.healthy

\* A Succeeded pod whose two containers are ready was classified, unhealthy.
C20_Witness ==
  /\ input.kind = "pod" /\ output # NoOutput
  /\ input.pod.phase = "Succeeded"
  /\ input.pod.ready = <<TRUE, TRUE>>
  /\ ~output.healthy

\* ------------------------------------------------------------------ claim C19
\* The conditions of type Ready of a node, in their order.
ReadyConditions(conds) == SelectSeq(conds, LAMBDA cond : cond.type = "Ready")

\* C19: each node is classified from its first condition of type Ready (True
\* gives "Ready", any other status "NotReady", no Ready condition "Unknown");
\* the healthy count is the number of nodes classified "Ready" and the node
\* list has one entry per listed node, in listing order.
C19_NodeClassification ==
  (input.kind = "nodes" /\ output # NoOutput) =>
    /\ Len(output.nodes) = Len(input.items)
    /\ \A i \in 1..Len(input.items) :
         LET rc == ReadyConditions(input.items[i]) IN
         output.nodes[i] =
           IF rc = <<>> THEN "Unknown"
           ELSE IF Head(rc).status = "True" THEN "Ready" ELSE "NotReady"
    /\ output.healthy =
         Cardinality({i \in 1..Len(output.nodes) : output.nodes[i] = "Ready"})

\* A listing of a ready node followed by one whose first Ready condition is
\* False and whose second is True: one healthy node, statuses in that order.
C19_Witness ==
  /\ input.kind = "nodes" /\ output # NoOutput
  /\ input.items = <<NodeReady, NodeTwoReady>>
  /\ output.nodes = <<"Ready", "NotReady">>
  /\ output.healthy = 1

\* ------------------------------------------------------------------ claim C18
\* The declared contexts whose cluster definition exists.
Resolving(cfg) == {c \in DOMAIN cfg.Contexts : cfg.Contexts[c] \in cfg.Clusters}

\* C18: a parseable configuration gives exactly one entry per declared
\* context whose cluster definition exists, keyed by its context name (N
\* resolving contexts, N entries); a context whose cluster does not resolve
\* gives no entry and no error, even when it is the current context; a
\* missing or unparsable file gives an error and no provider.
C18_OneEntryPerResolvingContext ==
  (input.kind = "load" /\ output # NoOutput) =>
    IF input.ok
    THEN /\ output.err = NoErr
         /\ output.provider # NilProvider
         /\ DOMAIN output.provider.clusters = Resolving(input)
         /\ Cardinality(DOMAIN output.provider.clusters) = Cardinality(Resolving(input))
         /\ \A c \in DOMAIN output.provider.clusters :
              /\ output.provider.clusters[c].Context = c
              /\ output.provider.clusters[c].Name = input.Contexts[c]
    ELSE /\ output.err # NoErr
         /\ output.provider = NilProvider

\* Two declared contexts, the current one naming a cluster that is not
\* defined: the provider was built without error and lists the other only.
C18_Witness ==
  /\ input.kind = "load" /\ output # NoOutput /\ input.ok
  /\ DOMAIN input.Contexts = CtxNames
  /\ input.CurrentContext \in CtxNames
  /\ input.Contexts[input.CurrentContext] \notin input.Clusters
  /\ output.err = NoErr
  /\ Cardinality(DOMAIN output.provider.clusters) = 1
  /\ input.CurrentContext \notin DOMAIN output.provider.clusters

\* ------------------------------------------------------------------ claim C16
\* C16: when GetClusterStatus hands an error to the closure of
\* GetAllClusterStatuses, the slot of that context holds a synthetic status
\* naming the context, not reachable, whose error is the error's message;
\* the slice keeps its length and the slot is filled.
C16_ErrorBecomesSyntheticStatus ==
  (input.kind = "slot" /\ output # NoOutput /\ input.err # NoErr) =>
    /\ Len(output.statuses) = input.n
    /\ output.statuses[input.idx] # NilStatus
    /\ output.statuses[input.idx].ctx = input.contextName
    /\ ~output.statuses[input.idx].reachable
    /\ output.statuses[input.idx].error = input.err

\* The closure of the second of two contexts was handed "context not found".
C16_Witness ==
  /\ input.kind = "slot" /\ output # NoOutput
  /\ input.err = ErrNotFound /\ input.n = 2 /\ input.idx = 2
  /\ output.statuses[2].error = ErrNotFound
  /\ ~output.statuses[2].reachable

\* ------------------------------------------------------------------ claim C21
RECURSIVE SumOver(_, _)
\* The sum of f over the set of positions S.
SumOver(f, S) ==
  IF S = {} THEN 0
  ELSE LET i == CHOOSE x \in S : TRUE IN f[i] + SumOver(f, S \ {i})

\* The 4-cluster scenario: 2/2 nodes and 5/5 pods, 1/2 nodes, 3/3 nodes and
\* 4/5 pods, and one cluster that is not reachable.
Scenario == <<StatusHealthy, StatusNodeIssue, StatusPodIssue, StatusUnreachable>>

\* C21: reachable is the number of reachable statuses; fully_healthy the
\* number of reachable statuses with nodes, no node issue and no pod issue;
\* unhealthy_pods the sum of pod_count - healthy_pods over the reachable
\* statuses with a pod issue; the scenario gives 4, 3, 1, 1 and 3 issues.
C21_SummaryCounts ==
  (input.kind = "health" /\ output # NoOutput) =>
    LET st == input.statuses
        R == {i \in 1..Len(st) : st[i].reachable}
        nodeBad(i) == st[i].healthyNodes < st[i].nodeCount
        podBad(i) == st[i].podCount > 0 /\ st[i].healthyPods < st[i].podCount
    IN /\ output.total_clusters = Len(st)
       /\ output.reachable = Cardinality(R)
       /\ output.fully_healthy =
            Cardinality({i \in R : st[i].nodeCount > 0 /\ ~nodeBad(i) /\ ~podBad(i)})
       /\ output.unhealthy_pods =
            SumOver([i \in 1..Len(st) |-> st[i].podCount - st[i].healthyPods],
                    {i \in R : podBad(i)})
       /\ st = Scenario =>
            /\ output.total_clusters = 4 /\ output.reachable = 3
            /\ output.fully_healthy = 1 /\ output.unhealthy_pods = 1
            /\ Len(output.issues) = 3

\* The scenario was analyzed.
C21_Witness ==
  /\ input.kind = "health" /\ output # NoOutput
  /\ input.statuses = Scenario
  /\ output.reachable = 3 /\ output.fully_healthy = 1

\* ------------------------------------------------------------------ claim C22
\* The issues one status calls for.
IssuesFor(status) ==
  IF ~status.reachable THEN <<UnreachableIssue(status)>>
  ELSE (IF status.nodeCount > 0 /\ status.healthyNodes < status.nodeCount
        THEN <<NodeIssue(status)>> ELSE <<>>)
       \o (IF status.podCount > 0 /\ status.healthyPods < status.podCount
           THEN <<PodIssue(status)>> ELSE <<>>)

RECURSIVE IssuesInOrder(_)
IssuesInOrder(list) ==
  IF list = <<>> THEN <<>>
  ELSE IssuesFor(Head(list)) \o IssuesInOrder(Tail(list))

\* C22: the issue list is, in the input order of the statuses, one
\* UNREACHABLE issue with context and error per unreachable status, and per
\* reachable status a node issue iff node_count > 0 and healthy_nodes <
\* node_count followed by a pod issue iff pod_count > 0 and healthy_pods <
\* pod_count; nothing else.
C22_IssuesInInputOrder ==
  (input.kind = "health" /\ output # NoOutput) =>
    output.issues = IssuesInOrder(input.statuses)

\* A cluster with both issues was analyzed after one that is not reachable
\* and before a healthy one: three issues, the less severe ones last.
C22_Witness ==
  /\ input.kind = "health" /\ output # NoOutput
  /\ input.statuses = <<StatusBothIssues, StatusUnreachable, StatusHealthy>>
  /\ output.issues = <<NodeIssue(StatusBothIssues), PodIssue(StatusBothIssues),
                       UnreachableIssue(StatusUnreachable)>>

\* ------------------------------------------------------------------ the current context
\* Mutant of MarkCurrent: the chosen entry is marked, no other is unmarked.
MarkCurrentKeepsOthers(cluster, contextName) ==
  [cluster EXCEPT !.IsCurrent = @ \/ cluster.Context = contextName]

\* Mutant of MarkCurrent: the entry is also renamed after the context.
MarkCurrentRenames(cluster, contextName) ==
  [cluster EXCEPT !.IsCurrent = cluster.Context = contextName, !.Name = "current"]

\* provider.go:206: cluster.IsCurrent = cluster.Context == contextName,
\* written through the pointer the map holds
MarkCurrent(cluster, contextName) ==
  [cluster EXCEPT !.IsCurrent = cluster.Context = contextName]

\* provider.go:199-210 SetCurrentContext; no lock is taken
SetCurrentContext(contextName) ==
  /\ setArg' = contextName
  /\ IF contextName \notin DOMAIN entries
     THEN /\ setRes' = "notfound"
          /\ UNCHANGED <<entries, currentContext>>
     ELSE /\ setRes' = "ok"
          /\ currentContext' = contextName
          /\ entries' = [c \in DOMAIN entries |-> MarkCurrent(entries[c], contextName)]
  /\ UNCHANGED <<listed, listedBefore, cacheVars, clusters, now, lockVars, callVars, pureVars, agentVars>>

\* provider.go:194-196 GetCurrentContext
GetCurrentContext == currentContext

\* A direct call of GetClusters (agent/tools.go:42, agent.go:129).
ListClusters ==
  /\ \E s \in GetClusters : listed' = [list |-> s]
  /\ listedBefore' = listed
  /\ UNCHANGED <<entries, currentContext, setRes, setArg, cacheVars, clusters, now,
                 lockVars, callVars, pureVars, agentVars>>

\* The provider NewProvider builds from a parseable kubeconfig that defines
\* one cluster; a context naming the other cluster does not resolve.
InitCtx ==
  /\ InitState
  /\ IdleAgent
  /\ \E cfg \in Configs :
       /\ cfg.ok
       /\ cfg.Clusters = {"east"}
       /\ entries = NewProvider(cfg).provider.clusters
       /\ currentContext = NewProvider(cfg).provider.currentContext
  /\ clusters = DOMAIN entries
  /\ setRes = "none"
  /\ setArg = 0
  /\ listed = NoList
  /\ listedBefore = NoList
  /\ input = NoInput
  /\ output = NoOutput

\* The operations of the provider: SetCurrentContext at any moment of a
\* GetAllClusterStatuses, whose tasks call GetClusterStatus, and the two cache
\* operations.
NextCtx ==
  \/ \E c \in CtxNames : SetCurrentContext(c)
  \/ ClearCache
  \/ \E ttl \in TTLs : SetCacheTTL(ttl)
  \/ GetAllStart
  \/ Spawn
  \/ \E k \in Tasks : TaskCall(k)
  \/ \E k \in Tasks, r \in Responses : TaskProbe(k, r)
  \/ \E k \in Tasks : TaskWrite(k)
  \/ GetAllReturn

SpecCtx == InitCtx /\ [][NextCtx]_vars

\* ------------------------------------------------------------------ claim C27
\* What a call of SetCurrentContext writes or returns.
setVars == <<setRes, setArg, entries, currentContext>>

\* C27: after load and after any SetCurrentContext calls an entry is flagged
\* current if and only if its context name is GetCurrentContext(), so at
\* most one is; SetCurrentContext(c) makes a configured c the current
\* context, and for an unconfigured c returns an error and leaves the
\* current context and every flag as they were.
C27_FlagIffCurrentContext ==
  /\ [](\A c \in DOMAIN entries :
          /\ entries[c].IsCurrent <=> (c = GetCurrentContext)
          /\ entries[c].Context = c)
  /\ [][setVars' # setVars =>
          IF setArg' \in DOMAIN entries
          THEN setRes' = "ok" /\ currentContext' = setArg'
          ELSE setRes' = "notfound" /\ UNCHANGED <<entries, currentContext>>]_vars

\* Of two entries the one SetCurrentContext was called for is current and
\* the other is not.
C27_Witness ==
  /\ setRes = "ok"
  /\ DOMAIN entries = CtxNames
  /\ currentContext = setArg
  /\ entries[setArg].IsCurrent
  /\ \E d \in DOMAIN entries : d # setArg /\ ~entries[d].IsCurrent

\* ------------------------------------------------------------------ claim C23
\* C23 as amended: no operation adds, removes or renames an entry or changes
\* its context name, and only a successful SetCurrentContext, which takes no
\* lock, rewrites the is-current flags; GetClusterStatus,
\* GetAllClusterStatuses, GetClusters, GetClusterByContext, SetCacheTTL and
\* ClearCache leave every attribute of every entry as it was.
C23_OnlySetCurrentContextWrites ==
  [][/\ DOMAIN entries' = DOMAIN entries
     /\ \A c \in DOMAIN entries :
          /\ entries'[c].Name = entries[c].Name
          /\ entries'[c].Context = entries[c].Context
     /\ entries' # entries =>
          /\ setRes' = "ok" /\ setArg' \in DOMAIN entries /\ currentContext' = setArg'
          /\ UNCHANGED <<cacheVars, callVars>>]_vars

\* C23 as stated: no operation modifies any attribute of any entry.
C23_Original == [][entries' = entries]_vars

\* An aggregation over two entries has returned and SetCurrentContext has
\* flagged the entry it was called for.
C23_Witness ==
  /\ apc = "returned" /\ Len(result) = 2
  /\ setRes = "ok"
  /\ entries[setArg].IsCurrent
  /\ entries # NewProvider(ConfigOf(clusters)).provider.clusters

\* ------------------------------------------------------------------ claim C24
\* GetAllClusterStatuses and direct calls of GetClusters, in any order.
NextList ==
  \/ ListClusters
  \/ GetAllStart
  \/ Spawn
  \/ \E k \in Tasks : TaskCall(k)
  \/ \E k \in Tasks, r \in Responses : TaskProbe(k, r)
  \/ \E k \in Tasks : TaskWrite(k)
  \/ GetAllReturn

SpecList == Init /\ [][NextList]_vars

\* C24 as stated: for one loaded configuration every call of GetClusters
\* returns the entries in the same order, and that is the order of the
\* positions of the list GetAllClusterStatuses returns, so result i pairs
\* with entry i of a separate GetClusters call.
C24_Original ==
  /\ (listed # NoList /\ listedBefore # NoList) => listed = listedBefore
  /\ (listed # NoList /\ apc = "returned") =>
       \A i \in DOMAIN result : result[i].ctx = listed.list[i]

\* ------------------------------------------------------------------ the agent's handlers
\* agent.go:82-86 readOnlyCommands
readOnlyCommands ==
  {"get", "describe", "logs", "top", "explain", "api-resources", "api-versions",
   "cluster-info", "version", "config", "diff", "auth"}

\* agent.go:764-804 allowedCommands
allowedCommands ==
  readOnlyCommands \cup
  {"create", "apply", "edit", "delete", "replace", "patch", "scale", "autoscale",
   "rollout", "set", "label", "annotate", "expose", "run", "port-forward", "proxy",
   "attach", "exec", "cp", "drain", "cordon", "uncordon", "taint", "certificate",
   "wait"}

\* agent.go:733-748 dangerousCommands
dangerousCommands ==
  {"delete", "drain", "cordon", "uncordon", "taint", "label", "annotate", "patch",
   "replace", "scale", "set", "rollout", "certificate"}

\* The words kubectl_exec is called with: a read-only subcommand, a write
\* subcommand, a subcommand that is in no list, and arguments.
ArgWords == {"get", "delete", "debug", "pods", "--all", "-n", "Bad_NS", "a;b"}
ArgLists == UNION {[1..n -> ArgWords] : n \in 0..MaxArgs}

\* agent.go:751-761 injectionPatterns: the words one of the patterns matches
MatchesInjection(word) == word = "a;b"

\* agent.go:887-896 isValidKubernetesName, on the words
isValidKubernetesName(word) == word \in {"get", "delete", "debug", "pods"}

\* agent.go:113-125 isReadOnlyCommand
isReadOnlyCommand(args) == Len(args) > 0 /\ args[1] \in readOnlyCommands

\* agent.go:839-848 checkInjectionPatterns
checkInjectionPatterns(args) == \E i \in 1..Len(args) : MatchesInjection(args[i])

\* agent.go:851-867 validateNamespaceFlags
validateNamespaceFlags(args) ==
  \E i \in 1..Len(args) :
    args[i] = "-n" /\ i + 1 <= Len(args) /\ ~isValidKubernetesName(args[i + 1])

\* agent.go:870-884 validateDangerousCommands
validateDangerousCommands(args) ==
  /\ args[1] \in dangerousCommands
  /\ args[1] = "delete"
  /\ \E i \in 1..Len(args) : args[i] = "--all"

\* agent.go:808-836 validateKubectlCommand: the error, NoErr for nil
validateKubectlCommand(args) ==
  IF Len(args) = 0 THEN "no kubectl command provided"
  ELSE IF args[1] \notin allowedCommands THEN "command is not allowed"
  ELSE IF checkInjectionPatterns(args) THEN "potential command injection"
  ELSE IF validateNamespaceFlags(args) THEN "invalid namespace name"
  ELSE IF validateDangerousCommands(args) THEN "bulk delete"
  ELSE NoErr

\* What the user types at the confirmation prompt, and the end of input.
Answers == {"yes", " Y ", "no", "yes please", "EOF"}

\* tools.go:642: strings.TrimSpace(strings.ToLower(response))
TrimLower(text) ==
  CASE text = " Y " -> "y"
    [] text = "  /ReadOnly  " -> "/readonly"
    [] text = "/INTERACTIVE ON" -> "/interactive on"
    [] text = "/Status" -> "/status"
    [] OTHER -> text

\* tools.go:629-654 confirmWriteOperation: (proceed, err)
confirmWriteOperation(answer) ==
  IF answer = "EOF" THEN [proceed |-> FALSE, err |-> "failed to read confirmation"]
  ELSE [proceed |-> TrimLower(answer) \in {"yes", "y"}, err |-> NoErr]

\* Mutant of enforceExecutionMode: a write command is let through in
\* read-only mode.
enforceExecutionModeOpen(m, isReadOnly, answer) ==
  IF ~isReadOnly /\ m = ModeInteractive
  THEN LET c == confirmWriteOperation(answer) IN
       [proceed |-> c.proceed, asked |-> TRUE, err |-> c.err]
  ELSE [proceed |-> TRUE, asked |-> FALSE, err |-> NoErr]

\* tools.go:607-627 enforceExecutionMode: (proceed, err), and whether the
\* user was asked
enforceExecutionMode(m, isReadOnly, answer) ==
  IF ~isReadOnly /\ m = ModeReadOnly
  THEN [proceed |-> FALSE, asked |-> FALSE, err |-> "write operation blocked in read-only mode"]
  ELSE IF ~isReadOnly /\ m = ModeInteractive
  THEN LET c == confirmWriteOperation(answer) IN
       [proceed |-> c.proceed, asked |-> TRUE, err |-> c.err]
  ELSE [proceed |-> TRUE, asked |-> FALSE, err |-> NoErr]

\* tools.go:551-580 handleKubectlExec for the context (0 for the empty name)
\* and the arguments, the user answering the prompt, if any, with answer
handleKubectlExec(contextName, args, answer) ==
  LET call == [ctx |-> contextName, args |-> args, mode |-> mode,
               asked |-> FALSE, answer |-> "", ran |-> FALSE, err |-> NoErr]
  IN
  IF contextName = 0 THEN [call EXCEPT !.err = "context is required"]
  ELSE IF Len(args) = 0 THEN [call EXCEPT !.err = "kubectl arguments are required"]
  ELSE IF ~GetClusterByContext(contextName) THEN [call EXCEPT !.err = "cluster not found"]
  ELSE LET e == enforceExecutionMode(mode, isReadOnlyCommand(args), answer) IN
       [call EXCEPT !.asked = e.asked,
                    !.answer = IF e.asked THEN answer ELSE "",
                    !.err = e.err,
                    !.ran = e.proceed /\ e.err = NoErr]

\* The invocations of kubectl_exec: context 0 is the empty name.
ExecInputs ==
  {[kind |-> "exec", ctx |-> c, args |-> args, answer |-> answer] :
     c \in {0} \cup CtxNames, args \in ArgLists, answer \in Answers}

\* The tool kubectl_exec is invoked (tools.go:541-548).
KubectlExec ==
  /\ input.kind = "exec"
  /\ kexec' = handleKubectlExec(input.ctx, input.args, input.answer)
  /\ UNCHANGED <<mode, sw, cacheVars, clusters, now, lockVars, callVars, pureVars, ctxVars>>

\* What the user types at the agent's prompt.
Inputs ==
  {"/readonly", "/readonly on", "  /ReadOnly  ", "/interactive", "/INTERACTIVE ON",
   "/mode", "/Status", "/readonly off", "show me pods", ""}

\* Mutant of ModeAfter: /mode puts the agent in read-only mode.
ModeAfterResets(lower, m) ==
  IF lower \in {"/readonly", "/readonly on", "/mode"} THEN ModeReadOnly
  ELSE IF lower \in {"/interactive", "/interactive on"} THEN ModeInteractive
  ELSE m

\* agent.go:594-610: the mode the switch leaves
ModeAfter(lower, m) ==
  IF lower \in {"/readonly", "/readonly on"} THEN ModeReadOnly
  ELSE IF lower \in {"/interactive", "/interactive on"} THEN ModeInteractive
  ELSE m

\* agent.go:591-625 handleModeSwitch
handleModeSwitch(text) ==
  LET lower == TrimLower(text) IN
  /\ mode' = ModeAfter(lower, mode)
  /\ sw' = [input |-> text,
            handled |-> lower \in {"/readonly", "/readonly on", "/interactive",
                                   "/interactive on", "/mode", "/status"}]
  /\ UNCHANGED <<kexec, cacheVars, clusters, now, lockVars, callVars, pureVars, ctxVars>>

\* main.go:75-78: the agent starts in read-only mode, or in interactive mode
\* with --interactive; context 1 is configured and context 2 is not. The
\* model is asked for one kubectl_exec invocation, any number of times,
\* between the user's inputs.
InitAgent ==
  /\ InitState
  /\ clusters = {1}
  /\ entries = NewProvider(ConfigOf(clusters)).provider.clusters
  /\ currentContext = 0
  /\ setRes = "none"
  /\ setArg = 0
  /\ listed = NoList
  /\ listedBefore = NoList
  /\ input \in ExecInputs
  /\ output = NoOutput
  /\ mode \in {ModeReadOnly, ModeInteractive}
  /\ kexec = NoExec
  /\ sw = NoSwitch

NextAgent ==
  \/ KubectlExec
  \/ \E text \in Inputs : handleModeSwitch(text)

SpecAgent == InitAgent /\ [][NextAgent]_vars

\* ------------------------------------------------------------------ claim C25
\* C25: kubectl_exec runs a command whose first argument is not in the
\* read-only list only in interactive mode and after the user answered yes
\* or y to the prompt; in read-only mode such a command is never run and an
\* error is returned; a command whose first argument is in the read-only
\* list runs in either mode without confirmation.
C25_WriteNeedsConfirmation ==
  kexec # NoExec =>
    LET firstReadOnly == Len(kexec.args) > 0 /\ kexec.args[1] \in readOnlyCommands
        callable == kexec.ctx \in clusters /\ Len(kexec.args) > 0
    IN /\ (kexec.ran /\ ~firstReadOnly) =>
            /\ kexec.mode = ModeInteractive
            /\ kexec.asked
            /\ kexec.answer \in {"yes", " Y "}
       /\ (kexec.mode = ModeReadOnly /\ ~firstReadOnly) =>
            ~kexec.ran /\ kexec.err # NoErr /\ ~kexec.asked
       /\ (firstReadOnly /\ callable) =>
            kexec.ran /\ ~kexec.asked /\ kexec.err = NoErr

\* In interactive mode a delete was run after the user typed " Y ".
C25_Witness ==
  /\ kexec # NoExec
  /\ kexec.ran /\ kexec.asked
  /\ kexec.args[1] = "delete"
  /\ kexec.mode = ModeInteractive
  /\ kexec.answer = " Y "

\* ------------------------------------------------------------------ claim C26
\* C26 as stated: kubectl_exec never runs a command whose subcommand is
\* outside the allowed-command list or that validateKubectlCommand rejects;
\* every command it runs has passed that validation.
C26_Original ==
  (kexec # NoExec /\ kexec.ran) =>
    /\ kexec.args[1] \in allowedCommands
    /\ validateKubectlCommand(kexec.args) = NoErr

\* ------------------------------------------------------------------ claim C28
ReadOnlyInputs == {"/readonly", "/readonly on", "  /ReadOnly  "}
InteractiveInputs == {"/interactive", "/INTERACTIVE ON"}
ShowInputs == {"/mode", "/Status"}

\* C28: /readonly (or "/readonly on") leaves the mode read-only and
\* /interactive (or "/interactive on") leaves it interactive, whatever it
\* was; /mode and /status leave it unchanged; all are matched without regard
\* to case and surrounding whitespace and return true; any other input
\* returns false and leaves the mode unchanged. A kubectl_exec is checked
\* against the mode the last switch left, and does not change it.
C28_ModeSwitchMachine ==
  [][/\ (sw' # sw \/ mode' # mode) =>
          /\ sw'.input \in ReadOnlyInputs => (mode' = ModeReadOnly /\ sw'.handled)
          /\ sw'.input \in InteractiveInputs => (mode' = ModeInteractive /\ sw'.handled)
          /\ sw'.input \in ShowInputs => (mode' = mode /\ sw'.handled)
          /\ sw'.input \notin ReadOnlyInputs \cup InteractiveInputs \cup ShowInputs =>
               (mode' = mode /\ ~sw'.handled)
          /\ kexec' = kexec
     /\ kexec' # kexec => (kexec'.mode = mode /\ mode' = mode)]_vars

\* The last input was "/Status", which left the mode interactive, and a
\* delete has been confirmed and run in interactive mode.
C28_Witness ==
  /\ sw # NoSwitch /\ sw.input = "/Status" /\ sw.handled
  /\ mode = ModeInteractive
  /\ kexec # NoExec /\ kexec.ran /\ kexec.mode = ModeInteractive
  /\ kexec.args[1] = "delete"

\* ------------------------------------------------------------------ claim C29
\* The activation went through the node listing.
NodesCollected == aresp.client /\ ~aresp.verr /\ ~NodesFailed

\* C29: GetClusterStatus writes the cache exactly when the assembly got past
\* the node listing, and does so before it returns; an assembly that ends at
\* a client, version or node-list failure leaves the cache as it was, so the
\* next call for the context finds nothing to serve and probes again.
C29_CachedIffNodesCollected ==
  /\ [](AsmReturned =>
          /\ apos = "stored" <=> NodesCollected
          /\ apos = "stored" =>
               (cache[actx] # NoEntry /\ cache[actx].Status = astatus)
          /\ apos = "done" => getCachedStatus(actx) = NilStatus)
  /\ [][cache' # cache =>
          /\ apos = "store" /\ apos' = "stored" /\ NodesCollected
          /\ cache'[actx].Status = astatus /\ astatus' = astatus
          /\ \A c \in CtxNames \ {actx} : cache'[c] = cache[c]]_vars

\* The pod listing failed after the nodes were collected, and the status is
\* in the cache when the call is about to return.
C29_Witness ==
  /\ apos = "stored"
  /\ aresp.perr /\ ~aexpired
  /\ cache[actx] # NoEntry /\ cache[actx].Status = astatus
  /\ astatus.podCount = 0 /\ astatus.nodeCount > 0

\* ------------------------------------------------------------------ claim C30
\* provider.go:118: the deadline of queryCtx, created at time start
QueryDeadline(start) == start + QueryTimeout

\* collectors.go:25: the deadline of discoveryCtx, a child of queryCtx
\* created at time start; a child context ends no later than its parent
DiscoveryDeadline(parent, start) ==
  IF start + DiscoveryTimeout < parent THEN start + DiscoveryTimeout ELSE parent

\* C30 as stated: the deadline of the version probe is strictly earlier than
\* the one that bounds the node, namespace and pod collectors, and the
\* version probe is abandoned when its own deadline passes.
C30_Original ==
  Called("version") =>
    /\ DiscoveryDeadline(QueryDeadline(0), 0) < QueryDeadline(0)
    /\ aexpiredAt = "version" => (~astatus.reachable /\ astatus.error # "")

\* ------------------------------------------------------------------ claim C31
\* The Caller's call for c looks the cache up in this step and finds an entry
\* whose expiry has passed.
FindsExpired(c) ==
  /\ pc[Caller] = "idle"
  /\ pc'[Caller] # "idle"
  /\ arg'[Caller] = c
  /\ cache[c] # NoEntry
  /\ Expired(cache[c])

\* C31 as stated: a lookup that finds an expired entry removes it from the
\* cache.
C31_Original ==
  [][\A c \in CtxNames : FindsExpired(c) => cache'[c] = NoEntry]_vars

\* C31: every lookup compares the entry with its expiry; a lookup that finds
\* an expired entry answers nil, so the call goes to the cluster, and leaves
\* the map as it was: the expired entry stays in the map, never served, until
\* a put for its context replaces it or ClearCache empties the map.
C31_ExpiredLookupMissesAndKeeps ==
  /\ [](\A c \in CtxNames :
          (cache[c] # NoEntry /\ Expired(cache[c])) => getCachedStatus(c) = NilStatus)
  /\ [][\A c \in CtxNames :
          /\ FindsExpired(c) =>
               /\ ret'[Caller] = NilStatus
               /\ how'[Caller] # "cached"
               /\ cache' = cache
          /\ (cache[c] # NoEntry /\ cache'[c] # cache[c]) =>
               \/ cache' = ClearedCache
               \/ /\ cache'[c] # NoEntry
                  /\ lastPut'[c] # NoPut
                  /\ lastPut'[c].at = now
                  /\ cache'[c].Status = lastPut'[c].status]_vars

\* The Caller's lookup has just found an expired entry: the call is at the
\* cluster and the entry, put more than its TTL ago, is still in the map.
C31_Witness ==
  /\ pc[Caller] = "probing"
  /\ lookT = now
  /\ cache[arg[Caller]] # NoEntry
  /\ Expired(cache[arg[Caller]])
  /\ lastPut[arg[Caller]] # NoPut
  /\ lastPut[arg[Caller]].at + lastPut[arg[Caller]].d < lookT

\* ------------------------------------------------------------------ claim C32
\* The call the activation is at: the one it makes next, or is waiting for.
CallAt(pos) == IF pos = "client" THEN "createClientset" ELSE pos

\* C32: within one activation the calls are made one at a time in the order
\* createClientset, version, nodes, namespaces, pods: each call is made from
\* its own place in the sequence after all the calls before it have returned,
\* the node listing only after the version probe has succeeded, and the
\* namespace and pod listings only after the node listing has succeeded.
C32_CollectorsInOrder ==
  /\ [](/\ Len(acalls) <= Len(AllCalls)
        /\ \A i \in DOMAIN acalls : acalls[i] = AllCalls[i]
        /\ Called("nodes") =>
             /\ aresp.client /\ ~aresp.verr
             /\ astatus.reachable /\ astatus.version = aresp.version
        /\ (Called("namespaces") \/ Called("pods")) =>
             /\ ~NodesFailed
             /\ astatus.nodeCount = Len(aresp.nodes)
             /\ astatus.error = "")
  /\ [][(acalls' # acalls /\ acalls' # <<>>) =>
          /\ Len(acalls') = Len(acalls) + 1
          /\ \A i \in DOMAIN acalls : acalls'[i] = acalls[i]
          /\ acalls'[Len(acalls')] = CallAt(apos)
          /\ apos' # apos]_vars

\* All four collectors have run, in order, and the status is in the cache.
C32_Witness ==
  /\ apos = "stored"
  /\ acalls = AllCalls
  /\ ~aresp.nserr /\ ~aresp.perr /\ ~aexpired
  /\ astatus.nodeCount = 1 /\ astatus.podCount = 1
  /\ astatus.namespaces # <<>>

\* ------------------------------------------------------------------ claim C33
\* The statuses an assembly for c builds when it runs to its end: the client
\* was built, the version probe and the node listing succeeded.
CompletedFor(c) ==
  {Assemble(c, r, FALSE) : r \in {q \in AsmResponses : q.client /\ ~q.verr /\ ~q.nerr}}

\* C33: every key of the cache is a configured context, the status under key
\* k is a status of context k built by an assembly for k that ran to its end,
\* and a GetClusterStatus call for a context that is not configured is never
\* answered from the cache: it returns the not-found error and no status.
C33_CacheKeysAreConfigured ==
  /\ \A k \in CtxNames :
       cache[k] # NoEntry =>
         /\ k \in clusters
         /\ cache[k].Status.ctx = k
         /\ cache[k].Status \in CompletedFor(k)
         /\ cache[k].Status.reachable /\ cache[k].Status.error = ""
  /\ (pc[Caller] # "idle" /\ arg[Caller] \notin clusters) =>
       /\ how[Caller] = "notfound"
       /\ ret[Caller] = NilStatus
       /\ err[Caller] = ErrNotFound

\* With a status of the configured context in the cache, the Caller's call
\* for the other, unconfigured name has returned the not-found error.
C33_Witness ==
  /\ pc[Caller] = "returned"
  /\ arg[Caller] \in CtxNames \ clusters
  /\ how[Caller] = "notfound"
  /\ \E k \in clusters : cache[k] # NoEntry /\ ~Expired(cache[k])

\* ------------------------------------------------------------------ claim C34
\* Worker g is inside a cache function: getCachedStatus, cacheStatus,
\* ClearCache or SetCacheTTL.
InCacheOp(g) == lpc[g] \in {"rlock", "get", "runlock", "wlock", "wdrain", "write", "unlock"}

\* Some worker inside a cache function can take its next step.
CacheStepEnabled ==
  \E g \in Workers :
    \/ lpc[g] = "rlock" /\ CanRLock
    \/ lpc[g] \in {"get", "runlock", "write", "unlock"}
    \/ lpc[g] = "wlock" /\ CanLockPending
    \/ lpc[g] = "wdrain" /\ CanLock

\* C34: a worker whose probe is in flight holds the lock neither for reading
\* nor for writing: the lock is held only inside getCachedStatus and inside
\* cacheStatus, ClearCache and SetCacheTTL. So whatever probes hang, the
\* workers inside cache functions are never all blocked, and every cache
\* function a worker has entered returns.
C34_NoLockAcrossProbe ==
  /\ [](\A g \in Workers :
          /\ lpc[g] \in {"probe", "idle"} => (g \notin readers /\ writer # g)
          /\ g \in readers => lpc[g] \in {"get", "runlock"}
          /\ writer = g => lpc[g] \in {"write", "unlock"})
  /\ []((\E g \in Workers : InCacheOp(g)) => CacheStepEnabled)
  /\ \A g \in Workers : InCacheOp(g) ~> ~InCacheOp(g)

\* While one worker's probe is in flight, another has cleared the cache under
\* the write lock and a third waits in RLock for it to unlock.
C34_Witness ==
  \E g, h, k \in Workers :
    /\ lpc[g] = "probe"
    /\ lpc[h] = "unlock" /\ lop[h].kind = "clear" /\ writer = h
    /\ lpc[k] = "rlock" /\ lop[k].ctx = lop[g].ctx

\* ------------------------------------------------------------------ claim C35
\* The answers the clusters give to concurrent probes of one context: a
\* failure and two assemblies that differ.
FlightResponses == {RespVersionFail, RespHealthy, RespDegraded}

\* Concurrent GetClusterStatus calls for the configured contexts, and the clock.
NextFlight ==
  \/ \E g \in Workers, c \in clusters : WorkerCall(g, StatusOp(c))
  \/ \E g \in Workers : RLock(g)
  \/ \E g \in Workers : GetRead(g)
  \/ \E g \in Workers : RUnlock(g)
  \/ \E g \in Workers, r \in FlightResponses : WorkerProbe(g, r)
  \/ \E g \in Workers : LockPending(g)
  \/ \E g \in Workers : Lock(g)
  \/ \E g \in Workers : Write(g)
  \/ \E g \in Workers : Unlock(g)
  \/ Tick

SpecFlight == Init /\ [][NextFlight]_vars

\* The workers whose probe of c is in flight.
Probing(c) == {g \in Workers : lpc[g] = "probe" /\ lop[g].ctx = c}

\* C35: a call that misses the cache goes to the cluster whether or not other
\* calls are probing the same context; every probe that ends in a complete
\* assembly stores its own status, replacing the entry that is there; the
\* entry of a context is the status and the expiry of the latest store for it.
C35_NoSingleFlight ==
  /\ [](\A c \in CtxNames :
          cache[c] # NoEntry =>
            /\ lastPut[c] # NoPut
            /\ cache[c].Status = lastPut[c].status
            /\ cache[c].ExpiresAt = lastPut[c].at + lastPut[c].d)
  /\ [][\A g \in Workers :
          /\ (lpc[g] = "runlock" /\ lpc'[g] # "runlock") =>
               (lpc'[g] = "probe" <=>
                  (lhit[g] = NilStatus /\ lop[g].ctx \in clusters))
          /\ (lpc[g] = "probe" /\ lpc'[g] # "probe") =>
               \E r \in FlightResponses :
                 IF r.client /\ ~r.verr /\ ~r.nerr
                 THEN lpc'[g] = "wlock" /\ lop'[g].status = Assemble(lop[g].ctx, r, FALSE)
                 ELSE lpc'[g] = "idle"
          /\ (lpc[g] = "write" /\ lpc'[g] # "write") =>
               /\ cache'[lop[g].ctx] =
                    [Status |-> lop[g].status, ExpiresAt |-> now + cacheTTL]
               /\ \A c \in CtxNames \ {lop[g].ctx} : cache'[c] = cache[c]]_vars

\* Two calls missed the cache for the same context and probed it; the first
\* has stored its status, and the second, holding a different status, is
\* about to replace it while a third call is still probing.
C35_Witness ==
  \E g \in Workers, c \in clusters :
    /\ lpc[g] = "write" /\ lop[g].ctx = c
    /\ cache[c] # NoEntry
    /\ cache[c].Status # lop[g].status
    /\ ~Expired(cache[c])
    /\ Probing(c) # {}

\* ------------------------------------------------------------------ claim C36
\* What the analyzer has after the first i statuses of the list.
SummaryAfter(list, i) == analyzeClusterHealth(SubSeq(list, 1, i))

\* C36 as stated: every status of the input is accounted for in the summary:
\* it is counted as fully healthy or it adds at least one issue to the list,
\* and a reachable status with an error or without nodes adds an issue.
C36_Original ==
  (input.kind = "health" /\ output # NoOutput) =>
    \A i \in 1..Len(input.statuses) :
      LET before == SummaryAfter(input.statuses, i - 1)
          after == SummaryAfter(input.statuses, i)
          status == input.statuses[i]
      IN /\ \/ after.healthyCount = before.healthyCount + 1
            \/ Len(after.issues) > Len(before.issues)
         /\ (status.reachable /\ (status.error # "" \/ status.nodeCount = 0)) =>
              Len(after.issues) > Len(before.issues)

\* ------------------------------------------------------------------ claim C37
\* The answers of the cluster of this activation if it had no pods and
\* listed them without failure, all else as it went.
SameWithoutPods ==
  [aresp EXCEPT !.nserr = NamespacesFailed, !.perr = FALSE, !.pods = <<>>]

FlagIsCurrent(status) == status.isCurrent <=> (status.ctx = currentContext)

\* C38 as stated: once a SetCurrentContext has succeeded, every status a
\* GetClusterStatus call returns and every status in the list a
\* GetAllClusterStatuses call returns has its is-current flag set exactly
\* when its context is the current one, also when it comes from the cache.
C38_Original ==
  [][(setRes = "ok" /\ UNCHANGED <<setRes, setArg, currentContext, entries>>) =>
       /\ \A p \in Procs :
            (pc[p] # "returned" /\ pc'[p] = "returned" /\ ret'[p] # NilStatus) =>
              (ret'[p].isCurrent <=> (ret'[p].ctx = currentContext))
       /\ (apc # "returned" /\ apc' = "returned") =>
            \A i \in DOMAIN result' :
              (result'[i].isCurrent <=> (result'[i].ctx = currentContext))]_vars

\* ------------------------------------------------------------------ claim C39
\* The counts of a status agree with its lists.
CountsConsistent(status) ==
  /\ 0 <= status.healthyNodes
  /\ status.healthyNodes <= status.nodeCount
  /\ status.nodeCount = Len(status.nodes)
  /\ status.healthyNodes =
       Cardinality({i \in 1..Len(status.nodes) : status.nodes[i] = "Ready"})
  /\ 0 <= status.healthyPods
  /\ status.healthyPods <= status.podCount
  /\ status.healthyPods + Len(status.unhealthyPods) = status.podCount

\* C39: every status GetClusterStatus returns, assembled or from the cache,
\* has 0 <= healthy_nodes <= node_count = length of the node list and
\* 0 <= healthy_pods <= pod_count = healthy_pods + length of the
\* unhealthy-pod list; when the pod listing was kept, the list holds every
\* pod of the listing that is not healthy.
C39_CountsConsistent ==
  /\ apos \in {"hit", "done", "stored"} => CountsConsistent(astatus)
  /\ \A c \in CtxNames : cache[c] # NoEntry => CountsConsistent(cache[c].Status)
  /\ (apos = "stored" /\ ~PodsFailed) =>
       /\ astatus.podCount = Len(aresp.pods)
       /\ Len(astatus.unhealthyPods) =
            Cardinality({i \in 1..Len(aresp.pods) : ~isPodHealthy(aresp.pods[i])})

\* A status with two nodes, one of them ready, and two pods, one of them
\* unhealthy and listed, is returned from the cache.
C39_Witness ==
  /\ apos = "hit"
  /\ astatus.nodeCount = 2 /\ astatus.healthyNodes = 1
  /\ astatus.podCount = 2 /\ astatus.healthyPods = 1
  /\ Len(astatus.unhealthyPods) = 1
====
